---- MODULE Spec2Model ----
(***************************************************************************)
(* WebAgent: the /act and /health endpoints of main.py, the HTML reducer   *)
(* (html_optimizer.py), the action generator and parser                    *)
(* (action_generator.py) and the completion gateway (llm_client.py).       *)
(*                                                                         *)
(* Text.  A Python str is a sequence of tokens.  A token is a maximal      *)
(* lexical chunk of the string: one whitespace character, a run of plain   *)
(* characters, the text of one JSON document, or the str() of a pydantic   *)
(* object.  Adjacent chunks never merge into a JSON document.  Python      *)
(* values read from JSON are the tagged values JNull .. JObj, None being   *)
(* JNull.                                                                  *)
(*                                                                         *)
(* Specifications.  Spec and FairSpec: the service after construction,     *)
(* serving concurrent requests.  StartSpec: the process from the import    *)
(* of main.py, under the settings its environment can give.  ParseSpec     *)
(* and PromptSpec: parse_action and _build_action_prompt called directly,  *)
(* as the unit tests call them.  StepSpec: the service receiving requests  *)
(* whose history is shorter or longer than their step_index.               *)
(***************************************************************************)
EXTENDS Integers, Sequences, FiniteSets, TLC

\* ------------------------------------------------------------------ text

\* a whitespace character; " ", "\n", "\t", "\r" are whitespace for JSON and
\* for str.strip, "\f" for str.strip alone
Ws(c) == [tok |-> "ws", ws |-> c]
SP == Ws(" ")
NL == Ws("\n")
FF == Ws("\f")
\* a run of characters that neither starts nor ends with whitespace and is
\* not a JSON document
Lit(s) == [tok |-> "lit", lit |-> s]
\* the text of the JSON document whose value is v
Doc(v) == [tok |-> "json", json |-> v]
\* str(obj) of a pydantic model instance / of a Python value
Repr(o) == [tok |-> "repr", repr |-> o]
\* the decimal digits of the number n (a JSON document too)
NumLit(n) == [tok |-> "num", num |-> n]
\* NaN, Infinity, -Infinity: no JSON document, yet read by json.loads as a float
FloatConst(c) == [tok |-> "const", const |-> c]

JsonWhitespace == {" ", "\n", "\t", "\r"}
PyWhitespace == JsonWhitespace \cup {"\f"}

IsPyWs(t) == t.tok = "ws" /\ t.ws \in PyWhitespace
IsJsonWs(t) == t.tok = "ws" /\ t.ws \in JsonWhitespace

RECURSIVE lstrip(_)
lstrip(s) == IF s # <<>> /\ IsPyWs(Head(s)) THEN lstrip(Tail(s)) ELSE s

RECURSIVE rstrip(_)
rstrip(s) ==
    IF s # <<>> /\ IsPyWs(s[Len(s)]) THEN rstrip(SubSeq(s, 1, Len(s) - 1)) ELSE s

\* str.strip()
strip(s) == rstrip(lstrip(s))

\* the whitespace json.loads skips around a document
RECURSIVE JsonSkipLeft(_)
JsonSkipLeft(s) == IF s # <<>> /\ IsJsonWs(Head(s)) THEN JsonSkipLeft(Tail(s)) ELSE s

RECURSIVE JsonSkipRight(_)
JsonSkipRight(s) ==
    IF s # <<>> /\ IsJsonWs(s[Len(s)])
    THEN JsonSkipRight(SubSeq(s, 1, Len(s) - 1)) ELSE s

\* s.endswith(suffix)
endswith(s, suffix) ==
    /\ Len(s) >= Len(suffix)
    /\ SubSeq(s, Len(s) - Len(suffix) + 1, Len(s)) = suffix

\* x in s, for a non-empty x
Contains(s, x) ==
    \E i \in 1..(Len(s) - Len(x) + 1) : SubSeq(s, i, i + Len(x) - 1) = x

\* ------------------------------------------------------- Python values

JNull == [j |-> "null"]
None == JNull
JBool(b) == [j |-> "bool", b |-> b]
JNum(n) == [j |-> "num", n |-> n]
JStr(s) == [j |-> "str", s |-> s]
JArr(a) == [j |-> "arr", a |-> a]
JObj(f) == [j |-> "obj", o |-> f]

isinstance(x, ty) == x.j = ty

\* dict.get(key, default)
get(data, key, default) == IF key \in DOMAIN data.o THEN data.o[key] ELSE default

\* bool(x)
Truthy(x) ==
    CASE x.j = "null" -> FALSE
      [] x.j = "bool" -> x.b
      [] x.j = "num" -> x.n # 0
      [] x.j = "str" -> x.s # <<>>
      [] x.j = "arr" -> x.a # <<>>
      [] x.j = "obj" -> DOMAIN x.o # {}

\* a or b
Or(a, b) == IF Truthy(a) THEN a ELSE b

\* str(x) as an f-string or Template.substitute renders it
PyStr(x) ==
    CASE x.j = "str" -> x.s
      [] x.j = "num" -> <<NumLit(x.n)>>
      [] OTHER -> <<Repr(x)>>

\* the text of the JSON document of value v
JsonText(v) == IF v.j = "num" THEN <<NumLit(v.n)>> ELSE <<Doc(v)>>

\* json.loads: the text must be one JSON document between JSON whitespace
json_loads(s) ==
    LET core == JsonSkipRight(JsonSkipLeft(s))
    IN  IF Len(core) = 1 /\ core[1].tok = "json"
        THEN [ok |-> TRUE, val |-> core[1].json]
        ELSE IF Len(core) = 1 /\ core[1].tok = "num"
        THEN [ok |-> TRUE, val |-> JNum(core[1].num)]
        ELSE IF Len(core) = 1 /\ core[1].tok = "const"
        THEN [ok |-> TRUE, val |-> [j |-> "float", f |-> core[1].const]]
        ELSE [ok |-> FALSE]

\* ------------------------------------------ action shapes (pydantic)

Missing == [j |-> "missing"]
Invalid == [ok |-> FALSE]
Valid(o) == [ok |-> TRUE, obj |-> o]

ActionSuffix == <<Lit("Action")>>
Txt(s) == <<Lit(s)>>

\* class SelectorType(str, Enum)
SelectorType ==
    {Txt("attributeValueSelector"), Txt("tagContainsSelector"), Txt("xpathSelector")}

\* pydantic field validators: str, str | None, float | None
IsStr(x) == x.j = "str"
IsOptStr(x) == x.j \in {"str", "null"}
IsNumericStr(x) == x.j = "str" /\ Len(x.s) = 1 /\ x.s[1].tok = "num"
IsOptFloat(x) == x.j \in {"null", "num", "bool"} \/ IsNumericStr(x)
ToFloat(x) ==
    CASE x.j = "bool" -> JNum(IF x.b THEN 1 ELSE 0)
      [] x.j = "str" -> JNum(x.s[1].num)
      [] OTHER -> x

\* Selector(**selector_data): type a SelectorType, attribute optional, value a str
Selector(selector_data) ==
    LET type == get(selector_data, "type", Missing)
        attribute == get(selector_data, "attribute", None)
        value == get(selector_data, "value", Missing)
    IN  IF IsStr(type) /\ type.s \in SelectorType /\ IsOptStr(attribute) /\ IsStr(value)
        THEN Valid([j |-> "Selector", type |-> type.s, attribute |-> attribute,
                    value |-> value.s])
        ELSE Invalid

\* class BaseAction: type: str, selector: Selector | None = None
BaseAction(type, selector) == Valid([type |-> type, selector |-> selector])

\* ClickAction, had it kept the optional selector of BaseAction
ClickActionOptionalSelector(type, selector) ==
    Valid([type |-> type, selector |-> selector])

\* class ClickAction(BaseAction): selector: Selector
ClickAction(type, selector) ==
    IF selector.j = "Selector" THEN Valid([type |-> type, selector |-> selector])
    ELSE Invalid

\* class NavigateAction(BaseAction): url: str | None = None
NavigateAction(type, url) ==
    IF IsOptStr(url) THEN Valid([type |-> type, selector |-> None, url |-> url])
    ELSE Invalid

\* class TypeAction(BaseAction): text: str, selector: Selector
TypeAction(type, text, selector) ==
    IF IsStr(text) /\ selector.j = "Selector"
    THEN Valid([type |-> type, selector |-> selector, text |-> text.s])
    ELSE Invalid

\* class SelectAction(BaseAction): value: str, selector: Selector
SelectAction(type, value, selector) ==
    IF IsStr(value) /\ selector.j = "Selector"
    THEN Valid([type |-> type, selector |-> selector, value |-> value.s])
    ELSE Invalid

\* class WaitAction(BaseAction): time_seconds: float | None = None
WaitAction(type, time_seconds) ==
    IF IsOptFloat(time_seconds)
    THEN Valid([type |-> type, selector |-> None, time_seconds |-> ToFloat(time_seconds)])
    ELSE Invalid

\* ------------------------------------------ ActionGenerator.parse_action

\* discriminant, had "type" been taken whenever it is not None
discriminant_first_non_null(data) ==
    IF get(data, "type", None) # None THEN get(data, "type", None)
    ELSE get(data, "action", None)

\* discriminant, had an object without either key been given a default tag
discriminant_default(data) ==
    Or(Or(get(data, "type", None), get(data, "action", None)), JStr(Txt("unknown")))

\* data.get("type") or data.get("action")
discriminant(data) == Or(get(data, "type", None), get(data, "action", None))

\* normalize, had the suffix been appended without the endswith test
normalize_always_append(action_type) == action_type \o ActionSuffix

\* if not action_type.endswith("Action"): action_type = f"{action_type}Action"
normalize(action_type) ==
    IF endswith(action_type, ActionSuffix) THEN action_type
    ELSE action_type \o ActionSuffix

\* build_selector, had a selector object that fails validation been dropped
build_selector_lenient(selector_data) ==
    IF isinstance(selector_data, "obj") /\ Selector(selector_data).ok
    THEN Selector(selector_data) ELSE Valid(None)

\* Selector(**selector_data) if isinstance(selector_data, dict) else None
build_selector(selector_data) ==
    IF isinstance(selector_data, "obj") THEN Selector(selector_data) ELSE Valid(None)

\* dispatch, had the else branch rejected an unknown action type
dispatch_reject_unknown(action_type, data, selector) ==
    CASE action_type = Txt("Click") \o ActionSuffix ->
            ClickAction(action_type, selector)
      [] action_type = Txt("Navigate") \o ActionSuffix ->
            NavigateAction(action_type, get(data, "url", None))
      [] action_type = Txt("Type") \o ActionSuffix ->
            TypeAction(action_type, get(data, "text", JStr(<<>>)), selector)
      [] action_type = Txt("Select") \o ActionSuffix ->
            SelectAction(action_type, get(data, "value", JStr(<<>>)), selector)
      [] action_type = Txt("Wait") \o ActionSuffix ->
            WaitAction(action_type, get(data, "time_seconds", None))
      [] OTHER -> Invalid

\* dispatch, had data.get been called without the "" defaults of text and value
dispatch_no_defaults(action_type, data, selector) ==
    CASE action_type = Txt("Click") \o ActionSuffix ->
            ClickAction(action_type, selector)
      [] action_type = Txt("Navigate") \o ActionSuffix ->
            NavigateAction(action_type, get(data, "url", None))
      [] action_type = Txt("Type") \o ActionSuffix ->
            TypeAction(action_type, get(data, "text", None), selector)
      [] action_type = Txt("Select") \o ActionSuffix ->
            SelectAction(action_type, get(data, "value", None), selector)
      [] action_type = Txt("Wait") \o ActionSuffix ->
            WaitAction(action_type, get(data, "time_seconds", None))
      [] OTHER -> BaseAction(action_type, selector)

\* the if / elif chain on action_type
dispatch(action_type, data, selector) ==
    CASE action_type = Txt("Click") \o ActionSuffix ->
            ClickAction(action_type, selector)
      [] action_type = Txt("Navigate") \o ActionSuffix ->
            NavigateAction(action_type, get(data, "url", None))
      [] action_type = Txt("Type") \o ActionSuffix ->
            TypeAction(action_type, get(data, "text", JStr(<<>>)), selector)
      [] action_type = Txt("Select") \o ActionSuffix ->
            SelectAction(action_type, get(data, "value", JStr(<<>>)), selector)
      [] action_type = Txt("Wait") \o ActionSuffix ->
            WaitAction(action_type, get(data, "time_seconds", None))
      [] OTHER -> BaseAction(action_type, selector)

\* the second try block of parse_action: the shape built from the parsed
\* JSON value, or Invalid where the block raises
BuildAction(data) ==
    IF ~isinstance(data, "obj") THEN Invalid                 \* data.get: AttributeError
    ELSE
    LET raw_type == discriminant(data)
    IN  IF ~Truthy(raw_type) THEN Invalid                    \* ValueError
        ELSE IF ~IsStr(raw_type) THEN Invalid                \* .endswith: AttributeError
        ELSE
        LET action_type == normalize(raw_type.s)
            sel == build_selector(get(data, "selector", None))
        IN  IF ~sel.ok THEN Invalid                          \* ValidationError
            ELSE dispatch(action_type, data, sel.obj)

\* obj.model_dump_json(): the shape as a JSON document
model_dump_json(obj) ==
    LET sel == IF obj.selector.j = "Selector"
               THEN JObj([type |-> JStr(obj.selector.type),
                          attribute |-> obj.selector.attribute,
                          value |-> JStr(obj.selector.value)])
               ELSE JNull
    IN  JsonText(JObj([k \in DOMAIN obj |->
            CASE k = "type" -> JStr(obj.type)
              [] k = "selector" -> sel
              [] k = "text" -> JStr(obj.text)
              [] k = "value" -> JStr(obj.value)
              [] OTHER -> obj[k]]))

\* parse_action, had it returned obj.model_dump_json() instead of str(obj)
parse_action_render_json(action_text) ==
    IF action_text = <<>> THEN action_text
    ELSE
    LET loaded == json_loads(action_text)
    IN  IF ~loaded.ok THEN strip(action_text)
        ELSE
        LET built == BuildAction(loaded.val)
        IN  IF built.ok THEN model_dump_json(built.obj) ELSE strip(action_text)

\* parse_action, had the first except returned the text as it came
parse_action_raw_on_error(action_text) ==
    IF action_text = <<>> THEN action_text
    ELSE
    LET loaded == json_loads(action_text)
    IN  IF ~loaded.ok THEN action_text
        ELSE
        LET built == BuildAction(loaded.val)
        IN  IF built.ok THEN <<Repr(built.obj)>> ELSE strip(action_text)

\* parse_action, had the second except returned an empty action
parse_action_drop_on_error(action_text) ==
    IF action_text = <<>> THEN action_text
    ELSE
    LET loaded == json_loads(action_text)
    IN  IF ~loaded.ok THEN strip(action_text)
        ELSE
        LET built == BuildAction(loaded.val)
        IN  IF built.ok THEN <<Repr(built.obj)>> ELSE <<>>

parse_action(action_text) ==
    IF action_text = <<>> THEN action_text
    ELSE
    LET loaded == json_loads(action_text)
    IN  IF ~loaded.ok THEN strip(action_text)
        ELSE
        LET built == BuildAction(loaded.val)
        IN  IF built.ok THEN <<Repr(built.obj)>> ELSE strip(action_text)

\* self._logger.warning("Failed to parse action JSON: %s", str(e))
Warning == [level |-> "WARNING", msg |-> "Failed to parse action JSON: %s"]

\* parse_action_log, had the first except logged the warning as well
parse_action_log_every_fallback(action_text) ==
    IF action_text = <<>> THEN <<>>
    ELSE
    LET loaded == json_loads(action_text)
    IN  IF ~loaded.ok THEN <<Warning>>
        ELSE IF BuildAction(loaded.val).ok THEN <<>> ELSE <<Warning>>

\* the records parse_action hands to its logger during one call: none on
\* the early return, none in the first except, one in the second except
parse_action_log(action_text) ==
    IF action_text = <<>> THEN <<>>
    ELSE
    LET loaded == json_loads(action_text)
    IN  IF ~loaded.ok THEN <<>>
        ELSE IF BuildAction(loaded.val).ok THEN <<>> ELSE <<Warning>>

\* ------------------------------------------------------------ prompts

\* "\n".join(lines)
RECURSIVE Join(_)
Join(lines) ==
    IF lines = <<>> THEN <<>>
    ELSE IF Len(lines) = 1 THEN lines[1]
    ELSE lines[1] \o <<NL>> \o Join(Tail(lines))

\* HTML_OPTIMIZER_PROMPT.substitute(url=..., raw_html=...)
HTML_OPTIMIZER_PROMPT(url, raw_html) ==
    <<NL, Lit("You are an HTML OPTIMIZER for a web automation system."), NL,
      Lit("Input URL:"), NL>> \o url \o
    <<NL, NL, Lit("Raw HTML:"), NL>> \o raw_html \o
    <<NL, NL, Lit("Optimization Goals"), NL, Lit("Output Rules"), NL,
      Lit("Example"), NL>>

\* WEB_ACTION_GENERATOR_PROMPT.substitute(task=..., ...)
WEB_ACTION_GENERATOR_PROMPT(task, url, step_index, previous_actions, optimized_html) ==
    <<NL, Lit("You are an ACTION GENERATOR for a web automation system."), NL,
      Lit("Task:"), NL>> \o task \o
    <<NL, NL, Lit("Current URL:"), NL>> \o url \o
    <<NL, NL, Lit("Step:"), NL>> \o step_index \o
    <<NL, NL, Lit("Previous Actions:"), NL>> \o previous_actions \o
    <<NL, NL, Lit("Current Page HTML (optimized):"), NL>> \o optimized_html \o
    <<NL, NL, Lit("Available Actions"), NL,
      Lit("ClickAction"), NL, Lit("NavigateAction"), NL, Lit("TypeAction"), NL,
      Lit("SelectAction"), NL, Lit("WaitAction"), NL, NL,
      Lit("Available Selectors"), NL, Lit("xpathSelector(value)"), NL, NL,
      Lit("Output Rules"), NL, Lit("Action JSON Schemas"), NL,
      Lit("Example Outputs"), NL>>

\* _build_optimization_prompt, had it labelled the task context without
\* testing it
build_optimization_prompt_always_label(html, url, task_context) ==
    HTML_OPTIMIZER_PROMPT(
        url, <<Lit("Task Context:"), NL>> \o task_context \o <<NL, NL>> \o html)

\* HTMLOptimizer._build_optimization_prompt
\* (html, url, task_context are str values of a validated request)
\* NL is emitted as a whitespace token, so "Task Context:\n" is two tokens
build_optimization_prompt(html, url, task_context) ==
    LET raw_html ==
            IF task_context # <<>>
            THEN <<Lit("Task Context:"), NL>> \o task_context \o <<NL, NL>> \o html
            ELSE html
    IN  HTML_OPTIMIZER_PROMPT(url, raw_html)

\* HistoryLines, had the steps been numbered by enumerate(history)
RECURSIVE HistoryLinesFromZero(_, _)
HistoryLinesFromZero(history, i) ==
    IF i > Len(history) THEN <<>>
    ELSE
    LET entry == history[i]
        act == get(entry, "action", JStr(Txt("unknown")))
        result == get(entry, "result", JStr(<<>>))
        step == <<Lit("Step"), SP, NumLit(i - 1), Lit(":"), SP>> \o PyStr(act)
    IN  (IF Truthy(result)
         THEN <<step, <<SP, SP, Lit("Result:"), SP>> \o PyStr(result)>>
         ELSE <<step>>) \o HistoryLinesFromZero(history, i + 1)

\* ActionGenerator._format_history
RECURSIVE HistoryLines(_, _)
HistoryLines(history, i) ==
    IF i > Len(history) THEN <<>>
    ELSE
    LET entry == history[i]
        action == get(entry, "action", JStr(Txt("unknown")))
        result == get(entry, "result", JStr(<<>>))
        step == <<Lit("Step"), SP, NumLit(i), Lit(":"), SP>> \o PyStr(action)
    IN  (IF Truthy(result)
         THEN <<step, <<SP, SP, Lit("Result:"), SP>> \o PyStr(result)>>
         ELSE <<step>>) \o HistoryLines(history, i + 1)

format_history(history) ==
    IF history = <<>> THEN <<>> ELSE Join(HistoryLines(history, 1))

\* _build_action_prompt, had it left the history out of the prompt
build_action_prompt_no_history(prompt, optimized_html, step_index, history, url) ==
    WEB_ACTION_GENERATOR_PROMPT(
        prompt, url, <<NumLit(step_index)>>, <<Lit("No previous actions")>>,
        optimized_html)

\* ActionGenerator._build_action_prompt
build_action_prompt(prompt, optimized_html, step_index, history, url) ==
    LET history_text == format_history(history)
    IN  WEB_ACTION_GENERATOR_PROMPT(
            prompt, url, <<NumLit(step_index)>>,
            IF history_text # <<>> THEN history_text
            ELSE <<Lit("No previous actions")>>,
            optimized_html)

\* ------------------------------------------------- bounds and inputs

\* /act requests the model follows, handled concurrently
MaxRequests == 2
Requests == 1..MaxRequests

\* history entries as sent by the benchmark harness
HistoryEntry1 ==
    JObj([action |-> JStr(Txt("click #login-btn")), result |-> JStr(Txt("Login form opened"))])

\* JSON bodies posted to /act: well-formed ones, one with a field missing,
\* one with a mistyped field
Bodies ==
    { [task_id |-> JStr(Txt("task_123")), prompt |-> JStr(Txt("Login")),
       start_url |-> JStr(Txt("https://example.com/login")),
       snapshot_html |-> JStr(<<Lit("<html><input id='username'></html>")>>),
       step_index |-> JNum(0), web_project_id |-> JStr(Txt("project_1")),
       history |-> JArr(<<>>)],
      [task_id |-> JStr(Txt("task_456")), prompt |-> JStr(<<>>),
       start_url |-> JStr(Txt("https://example.com")),
       snapshot_html |-> JStr(<<SP, Lit("<html><h1>Task Complete</h1></html>"), NL>>),
       step_index |-> JNum(1), web_project_id |-> JStr(Txt("project_2")),
       history |-> JArr(<<HistoryEntry1>>)],
      [task_id |-> JStr(Txt("task_123")), prompt |-> JStr(Txt("Test task")),
       start_url |-> Missing, snapshot_html |-> Missing, step_index |-> Missing,
       web_project_id |-> Missing, history |-> Missing],
      [task_id |-> JNum(7), prompt |-> JStr(Txt("Login")),
       start_url |-> JStr(Txt("https://example.com/login")),
       snapshot_html |-> JStr(Txt("<html>Content</html>")),
       step_index |-> JStr(Txt("first")), web_project_id |-> JStr(Txt("project_1")),
       history |-> JArr(<<>>)] }

ClickJson ==
    JObj([action |-> JStr(Txt("Click") \o ActionSuffix),
          selector |-> JObj([type |-> JStr(Txt("xpathSelector")),
                             value |-> JStr(Txt("//button[@id='b']"))])])

\* response.content of the provider's reply to the reduction prompt
ReducerContents ==
    { JStr(<<NL, Lit("<html><button id='b'>Go</button></html>"), SP>>),
      JStr(<<>>),
      JArr(<<>>) }

\* response.content of the provider's reply to the action prompt
GeneratorContents ==
    { JStr(<<NL>> \o JsonText(ClickJson) \o <<NL>>),
      JStr(<<SP, Lit("click #login-btn"), NL>>),
      JStr(JsonText(JObj([selector |-> JNull]))),
      JStr(JsonText(JObj([action |-> JStr(Txt("Click"))]))),
      JStr(<<SP>>),
      JArr(<<>>) }

\* str(e) of the exceptions a provider call raises
ProviderErrors == { Txt("LLM API error") }

\* ------------------------------------------------- completion gateway

\* create_llm, had the credential and the provider name been checked only
\* when the handle is first used
create_llm_lazy(s, model, temperature, max_tokens) ==
    [ok |-> TRUE, provider |-> s.llm_provider, model |-> model,
     temperature |-> temperature, max_tokens |-> max_tokens]

\* LLMClient._create_llm: the handle of one model profile, or the ValueError
create_llm(s, model, temperature, max_tokens) ==
    LET handle == [ok |-> TRUE, provider |-> s.llm_provider, model |-> model,
                   temperature |-> temperature, max_tokens |-> max_tokens]
    IN  CASE s.llm_provider = "openai" ->
                IF ~Truthy(s.openai_api_key)
                THEN [ok |-> FALSE,
                      error |-> Txt("OpenAI API key is required when using OpenAI provider")]
                ELSE handle
          [] s.llm_provider = "anthropic" ->
                IF ~Truthy(s.anthropic_api_key)
                THEN [ok |-> FALSE,
                      error |-> Txt("Anthropic API key is required when using Anthropic provider")]
                ELSE handle
          [] s.llm_provider = "google" ->
                IF ~Truthy(s.google_api_key)
                THEN [ok |-> FALSE,
                      error |-> Txt("Google API key is required when using Google provider")]
                ELSE handle
          [] OTHER ->
                [ok |-> FALSE,
                 error |-> <<Lit("Unsupported LLM provider:"), SP, Lit(s.llm_provider)>>]

\* LLMClient.__init__
LLMClient(s) ==
    [html_optimization_llm |->
        create_llm(s, s.html_optimization_model, s.html_optimization_temperature,
                   s.html_optimization_max_tokens),
     action_generation_llm |->
        create_llm(s, s.action_generation_model, s.action_generation_temperature,
                   s.action_generation_max_tokens)]

\* generate, had it sent every message through the action-generation handle
generate_ignore_profile(llm_client, prompt, use_html_optimization_llm) ==
    [op |-> "ainvoke", llm |-> llm_client.action_generation_llm, prompt |-> prompt]

\* LLMClient.generate up to its await: the handle chosen and the message sent
generate(llm_client, prompt, use_html_optimization_llm) ==
    [op |-> "ainvoke",
     llm |-> IF use_html_optimization_llm THEN llm_client.html_optimization_llm
             ELSE llm_client.action_generation_llm,
     prompt |-> prompt]

\* HTMLOptimizer.__init__ / ActionGenerator.__init__: the component, or the
\* ValueError the first failing _create_llm raised
Component(s) ==
    LET llm_client == LLMClient(s)
    IN  IF ~llm_client.html_optimization_llm.ok
        THEN [ok |-> FALSE, error |-> llm_client.html_optimization_llm.error]
        ELSE IF ~llm_client.action_generation_llm.ok
        THEN [ok |-> FALSE, error |-> llm_client.action_generation_llm.error]
        ELSE Valid([settings |-> s, llm_client |-> llm_client])

HTMLOptimizer(s) == Component(s)

ActionGenerator(s) == Component(s)

\* class Settings, with the provider and the key of the environment
Settings(provider, key) ==
    [llm_provider |-> provider,
     openai_api_key |-> IF provider = "openai" THEN key ELSE None,
     anthropic_api_key |-> IF provider = "anthropic" THEN key ELSE None,
     google_api_key |-> IF provider = "google" THEN key ELSE None,
     html_optimization_model |-> "gpt-4o-mini",
     action_generation_model |-> "gpt-4o",
     html_optimization_temperature |-> "0.1",
     action_generation_temperature |-> "0.3",
     html_optimization_max_tokens |-> 4000,
     action_generation_max_tokens |-> 500]

\* ------------------------------------------------------ the service

VARIABLES
    settings,           \* main.py: settings = Settings()
    html_optimizer,     \* main.py: html_optimizer = HTMLOptimizer(settings)
    action_generator,   \* main.py: action_generator = ActionGenerator(settings)
    pc,                 \* where each /act request stands
    body,               \* the JSON body each request posted
    request,            \* act(request): the validated ActRequest of each call
    optimized_html,     \* act: local optimized_html of each call
    action,             \* act: local action of each call
    calls,              \* per request, the component and provider invocations, in order
    replies,            \* per request, what the provider returned or raised, in order
    responses,          \* per request, the HTTP responses sent
    health_responses    \* the distinct responses GET /health has given

\* direct calls of the pure methods, as the unit tests make them
VARIABLES
    parse_arg,          \* parse_action(action_text): the argument of a direct call
    parse_ret,          \* what that call returned
    prompt_arg,         \* _build_action_prompt(...): the arguments of a direct call
    prompt_ret          \* the prompt that call returned

service == <<settings, html_optimizer, action_generator, pc, body, request,
             optimized_html, action, calls, replies, responses, health_responses>>

direct == <<parse_arg, parse_ret, prompt_arg, prompt_ret>>

vars == <<service, direct>>

globals == <<settings, html_optimizer, action_generator>>

NoBody == [j |-> "nobody"]
NoRequest == [task_id |-> "none"]
Unset == [j |-> "unset"]

\* ActRequest, had every field but task_id and prompt been given a default
ActRequestWithDefaults(b) ==
    LET or(x, d) == IF x = Missing THEN d ELSE x
    IN  IF /\ IsStr(b.task_id) /\ IsStr(b.prompt)
           /\ IsStr(or(b.start_url, JStr(<<>>))) /\ IsStr(or(b.snapshot_html, JStr(<<>>)))
           /\ IsStr(or(b.web_project_id, JStr(<<>>)))
           /\ or(b.step_index, JNum(0)).j = "num"
           /\ isinstance(or(b.history, JArr(<<>>)), "arr")
        THEN Valid([task_id |-> b.task_id.s, prompt |-> b.prompt.s,
                    start_url |-> or(b.start_url, JStr(<<>>)).s,
                    snapshot_html |-> or(b.snapshot_html, JStr(<<>>)).s,
                    step_index |-> or(b.step_index, JNum(0)).n,
                    web_project_id |-> or(b.web_project_id, JStr(<<>>)).s,
                    history |-> or(b.history, JArr(<<>>)).a])
        ELSE Invalid

\* ActRequest, had a validator required len(history) == step_index
ActRequestHistoryChecked(b) ==
    IF /\ IsStr(b.task_id) /\ IsStr(b.prompt) /\ IsStr(b.start_url)
       /\ IsStr(b.snapshot_html) /\ IsStr(b.web_project_id)
       /\ (b.step_index.j \in {"num", "bool"} \/ IsNumericStr(b.step_index))
       /\ isinstance(b.history, "arr")
       /\ \A i \in 1..Len(b.history.a) : isinstance(b.history.a[i], "obj")
       /\ Len(b.history.a) = ToFloat(b.step_index).n
    THEN Valid([task_id |-> b.task_id.s, prompt |-> b.prompt.s,
                start_url |-> b.start_url.s, snapshot_html |-> b.snapshot_html.s,
                step_index |-> ToFloat(b.step_index).n,
                web_project_id |-> b.web_project_id.s, history |-> b.history.a])
    ELSE Invalid

\* class ActRequest(BaseModel): the validated model, or Invalid (FastAPI answers 422)
ActRequest(b) ==
    IF /\ IsStr(b.task_id) /\ IsStr(b.prompt) /\ IsStr(b.start_url)
       /\ IsStr(b.snapshot_html) /\ IsStr(b.web_project_id)
       /\ (b.step_index.j \in {"num", "bool"} \/ IsNumericStr(b.step_index))
       /\ isinstance(b.history, "arr")
       /\ \A i \in 1..Len(b.history.a) : isinstance(b.history.a[i], "obj")
    THEN Valid([task_id |-> b.task_id.s, prompt |-> b.prompt.s,
                start_url |-> b.start_url.s, snapshot_html |-> b.snapshot_html.s,
                step_index |-> ToFloat(b.step_index).n,
                web_project_id |-> b.web_project_id.s, history |-> b.history.a])
    ELSE Invalid

\* ActResponse, had a failure of an earlier request latched an error state
ActResponseLatched(a, task_id, step_index) ==
    IF \E q \in DOMAIN responses :
            responses[q] # <<>> /\ responses[q][1].status = 500
    THEN [status |-> 500, body |-> [detail |-> Txt("service degraded")]]
    ELSE [status |-> 200,
          body |-> [action |-> a, task_id |-> task_id, step_index |-> step_index]]

\* ActResponse, had act answered with the step after the request's
ActResponseNextStep(a, task_id, step_index) ==
    [status |-> 200,
     body |-> [action |-> a, task_id |-> task_id, step_index |-> step_index + 1]]

\* class ActResponse(BaseModel), sent with status 200
ActResponse(a, task_id, step_index) ==
    [status |-> 200,
     body |-> [action |-> a, task_id |-> task_id, step_index |-> step_index]]

\* HTTPException500, had the handler dropped the exception's message
HTTPException500NoMessage(e) ==
    [status |-> 500, body |-> [detail |-> <<Lit("Error processing action:"), SP>>]]

\* act: except Exception as e: raise HTTPException(status_code=500, ...)
HTTPException500(e) ==
    [status |-> 500, body |-> [detail |-> <<Lit("Error processing action:"), SP>> \o e]]

\* the 422 of FastAPI's request validation
ValidationError422 == [status |-> 422, body |-> [detail |-> Txt("validation error")]]

\* health, had it reported the failures of earlier /act requests
health_degraded ==
    IF \E r \in DOMAIN responses :
            responses[r] # <<>> /\ responses[r][1].status = 500
    THEN [status |-> 503, body |-> [status |-> "unhealthy"]]
    ELSE [status |-> 200, body |-> [status |-> "healthy"]]

\* health()
health == [status |-> 200, body |-> [status |-> "healthy"]]

\* Frame, had act kept the request in a module-level variable that the
\* latest request overwrites
FrameShared(r) ==
    request[CHOOSE q \in Requests :
                /\ pc[q] \in {"reducing", "generating"}
                /\ \A p \in Requests : pc[p] \in {"reducing", "generating"} => p <= q]

\* the frame of the coroutine handling request r
Frame(r) == request[r]

\* StripContent, had the orchestration components rejected an empty reply
StripContentRejectEmpty(content) ==
    IF ~IsStr(content)
    THEN [ok |-> FALSE, error |-> Txt("'list' object has no attribute 'strip'")]
    ELSE IF strip(content.s) = <<>>
    THEN [ok |-> FALSE, error |-> Txt("Empty response from provider")]
    ELSE [ok |-> TRUE, val |-> strip(content.s)]

\* StripContent, had the components removed the leading whitespace only
StripContentLeading(content) ==
    IF IsStr(content) THEN [ok |-> TRUE, val |-> lstrip(content.s)]
    ELSE [ok |-> FALSE, error |-> Txt("'list' object has no attribute 'strip'")]

\* response.content.strip() in optimize and generate_action: the str, or the
\* AttributeError of a content that is no str
StripContent(content) ==
    IF IsStr(content) THEN [ok |-> TRUE, val |-> strip(content.s)]
    ELSE [ok |-> FALSE, error |-> Txt("'list' object has no attribute 'strip'")]

\* act, step 1: html_optimizer.optimize(...) up to the await of the provider
optimize(req) ==
    <<[op |-> "optimize", html |-> req.snapshot_html, url |-> req.start_url,
       task_context |-> req.prompt],
      generate(html_optimizer.llm_client,
               build_optimization_prompt(req.snapshot_html, req.start_url, req.prompt),
               TRUE)>>

\* generate_action, had act passed the raw snapshot instead of the reducer's output
generate_action_raw_html(req, html) ==
    <<[op |-> "generate_action", prompt |-> req.prompt,
       optimized_html |-> req.snapshot_html,
       step_index |-> req.step_index, history |-> req.history, url |-> req.start_url],
      generate(action_generator.llm_client,
               build_action_prompt(req.prompt, req.snapshot_html, req.step_index,
                                   req.history, req.start_url),
               FALSE)>>

\* act, step 2: action_generator.generate_action(...) up to the await
generate_action(req, html) ==
    <<[op |-> "generate_action", prompt |-> req.prompt, optimized_html |-> html,
       step_index |-> req.step_index, history |-> req.history, url |-> req.start_url],
      generate(action_generator.llm_client,
               build_action_prompt(req.prompt, html, req.step_index, req.history,
                                   req.start_url),
               FALSE)>>

\* no request received yet
NoTraffic ==
    /\ pc = [r \in Requests |-> "idle"]
    /\ body = [r \in Requests |-> NoBody]
    /\ request = [r \in Requests |-> NoRequest]
    /\ optimized_html = [r \in Requests |-> Unset]
    /\ action = [r \in Requests |-> Unset]
    /\ calls = [r \in Requests |-> <<>>]
    /\ replies = [r \in Requests |-> <<>>]
    /\ responses = [r \in Requests |-> <<>>]
    /\ health_responses = {}

NoCall == [j |-> "nocall"]

\* no direct call made
NoDirectCall ==
    /\ parse_arg = NoCall
    /\ parse_ret = NoCall
    /\ prompt_arg = NoCall
    /\ prompt_ret = NoCall

\* the module-level objects of main.py, constructed
Constructed ==
    /\ settings = Settings("openai", JStr(Txt("test-key")))
    /\ html_optimizer = [settings |-> settings, llm_client |-> LLMClient(settings)]
    /\ action_generator = [settings |-> settings, llm_client |-> LLMClient(settings)]

Init == Constructed /\ NoTraffic /\ NoDirectCall

\* Fail, had the handler logged the exception without raising HTTPException
FailSilently(r, e) ==
    /\ responses' = responses
    /\ pc' = [pc EXCEPT ![r] = "done"]

\* except Exception as e: the 500 response of request r
Fail(r, e) ==
    /\ responses' = [responses EXCEPT ![r] = Append(@, HTTPException500(e))]
    /\ pc' = [pc EXCEPT ![r] = "done"]

\* POST /act arrives: validation, then act() down to the await in optimize
ActReceive(r, b) ==
    /\ pc[r] = "idle"
    /\ body' = [body EXCEPT ![r] = b]
    /\ LET v == ActRequest(b)
       IN  IF v.ok
           THEN /\ request' = [request EXCEPT ![r] = v.obj]
                /\ calls' = [calls EXCEPT ![r] = @ \o optimize(v.obj)]
                /\ pc' = [pc EXCEPT ![r] = "reducing"]
                /\ UNCHANGED responses
           ELSE /\ responses' = [responses EXCEPT ![r] = Append(@, ValidationError422)]
                /\ pc' = [pc EXCEPT ![r] = "done"]
                /\ UNCHANGED <<request, calls>>
    /\ UNCHANGED <<globals, optimized_html, action, replies, health_responses, direct>>

\* the reduction call returns: optimize strips, act goes on to generate_action
ReduceReturn(r, content) ==
    /\ pc[r] = "reducing"
    /\ replies' = [replies EXCEPT ![r] = Append(@, [ret |-> content])]
    /\ LET got == StripContent(content)
       IN  IF got.ok
           THEN /\ optimized_html' = [optimized_html EXCEPT ![r] = JStr(got.val)]
                /\ calls' = [calls EXCEPT ![r] = @ \o generate_action(Frame(r), got.val)]
                /\ pc' = [pc EXCEPT ![r] = "generating"]
                /\ UNCHANGED responses
           ELSE /\ Fail(r, got.error)
                /\ UNCHANGED <<optimized_html, calls>>
    /\ UNCHANGED <<globals, body, request, action, health_responses, direct>>

\* the reduction call raises
ReduceRaise(r, e) ==
    /\ pc[r] = "reducing"
    /\ replies' = [replies EXCEPT ![r] = Append(@, [exc |-> e])]
    /\ Fail(r, e)
    /\ UNCHANGED <<globals, body, request, optimized_html, action, calls,
                   health_responses, direct>>

\* the generation call returns: generate_action strips, act parses and responds
GenerateReturn(r, content) ==
    /\ pc[r] = "generating"
    /\ replies' = [replies EXCEPT ![r] = Append(@, [ret |-> content])]
    /\ LET got == StripContent(content)
       IN  IF got.ok
           THEN /\ calls' = [calls EXCEPT ![r] =
                                Append(@, [op |-> "parse_action", action_text |-> got.val])]
                /\ action' = [action EXCEPT ![r] = JStr(parse_action(got.val))]
                /\ responses' = [responses EXCEPT ![r] =
                        Append(@, ActResponse(action'[r].s, Frame(r).task_id,
                                              Frame(r).step_index))]
                /\ pc' = [pc EXCEPT ![r] = "done"]
           ELSE /\ Fail(r, got.error)
                /\ UNCHANGED <<action, calls>>
    /\ UNCHANGED <<globals, body, request, optimized_html, health_responses, direct>>

\* the generation call raises
GenerateRaise(r, e) ==
    /\ pc[r] = "generating"
    /\ replies' = [replies EXCEPT ![r] = Append(@, [exc |-> e])]
    /\ Fail(r, e)
    /\ UNCHANGED <<globals, body, request, optimized_html, action, calls,
                   health_responses, direct>>

\* GET /health
Health ==
    /\ health_responses' = health_responses \cup {health}
    /\ UNCHANGED <<globals, pc, body, request, optimized_html, action, calls,
                   replies, responses, direct>>

Next ==
    \/ \E r \in Requests, b \in Bodies : ActReceive(r, b)
    \/ \E r \in Requests, c \in ReducerContents : ReduceReturn(r, c)
    \/ \E r \in Requests, e \in ProviderErrors : ReduceRaise(r, e)
    \/ \E r \in Requests, c \in GeneratorContents : GenerateReturn(r, c)
    \/ \E r \in Requests, e \in ProviderErrors : GenerateRaise(r, e)
    \/ Health

Spec == Init /\ [][Next]_vars

\* the provider answers the call request r is waiting for
ProviderAnswers(r) ==
    \/ \E c \in ReducerContents : ReduceReturn(r, c)
    \/ \E e \in ProviderErrors : ReduceRaise(r, e)
    \/ \E c \in GeneratorContents : GenerateReturn(r, c)
    \/ \E e \in ProviderErrors : GenerateRaise(r, e)

\* every provider call eventually returns or raises
FairSpec == Spec /\ \A r \in Requests : WF_vars(ProviderAnswers(r))

\* ------------------------------------------------------ process start

ApiKey == JStr(Txt("test-key"))

\* the settings the environment of the process can give: a supported
\* provider with its key, with no key, with an empty key, with the key of
\* another provider only, and a provider name the gateway does not know
Environments ==
    { Settings("openai", ApiKey),
      Settings("google", ApiKey),
      Settings("openai", None),
      Settings("openai", JStr(<<>>)),
      Settings("anthropic", None),
      [Settings("openai", ApiKey) EXCEPT !.llm_provider = "anthropic"],
      [Settings("openai", ApiKey) EXCEPT !.llm_provider = "google"],
      Settings("azure", ApiKey) }

NotStarted == [j |-> "notstarted"]
ImportError(e) == [j |-> "raised", error |-> e]

\* main.py has been imported without an exception: the app can be served
Up == "llm_client" \in DOMAIN html_optimizer /\ "llm_client" \in DOMAIN action_generator

\* the process before main.py is imported: settings read from the environment
StartInit ==
    /\ settings \in Environments
    /\ html_optimizer = NotStarted
    /\ action_generator = NotStarted
    /\ NoTraffic
    /\ NoDirectCall

\* import of main.py: html_optimizer = HTMLOptimizer(settings), then
\* action_generator = ActionGenerator(settings); an exception ends the import
Startup ==
    /\ html_optimizer = NotStarted
    /\ LET h == HTMLOptimizer(settings)
           a == ActionGenerator(settings)
       IN  IF ~h.ok
           THEN /\ html_optimizer' = ImportError(h.error)
                /\ action_generator' = action_generator
           ELSE /\ html_optimizer' = h.obj
                /\ action_generator' = IF a.ok THEN a.obj ELSE ImportError(a.error)
    /\ UNCHANGED <<settings, pc, body, request, optimized_html, action, calls,
                   replies, responses, health_responses, direct>>

\* the server routes requests to the app only once main.py is imported
StartNext == Startup \/ (Up /\ Next)

StartSpec == StartInit /\ [][StartNext]_vars

\* ------------------------- requests whose history and step_index disagree

\* a body of the completion test, with the given step_index and history
StepBody(task_id, step_index, history) ==
    [task_id |-> JStr(Txt(task_id)), prompt |-> JStr(Txt("Complete a simple task")),
     start_url |-> JStr(Txt("https://example.com")),
     snapshot_html |-> JStr(Txt("<html><body><h1>Task Complete</h1></body></html>")),
     step_index |-> JNum(step_index), web_project_id |-> JStr(Txt("test")),
     history |-> JArr(history)]

HistoryEntry2 ==
    JObj([action |-> JStr(Txt("action2")), result |-> JStr(Txt("result2"))])

\* history shorter than step_index, longer than step_index, empty at a
\* later step, and as long as step_index
StepBodies ==
    { StepBody("complete_task_001", 5, <<HistoryEntry1, HistoryEntry2>>),
      StepBody("complete_task_002", 0, <<HistoryEntry1>>),
      StepBody("complete_task_003", 2, <<>>),
      StepBody("complete_task_004", 1, <<HistoryEntry1>>) }

\* the replies of the provider in these runs
StepReducerContents == { JStr(Txt("<html><body><h1>Task Complete</h1></body></html>")) }

StepGeneratorContents == { JStr(Txt("done")), JStr(JsonText(ClickJson)) }

StepNext ==
    \/ \E r \in Requests, b \in StepBodies : ActReceive(r, b)
    \/ \E r \in Requests, c \in StepReducerContents : ReduceReturn(r, c)
    \/ \E r \in Requests, e \in ProviderErrors : ReduceRaise(r, e)
    \/ \E r \in Requests, c \in StepGeneratorContents : GenerateReturn(r, c)
    \/ \E r \in Requests, e \in ProviderErrors : GenerateRaise(r, e)
    \/ Health

StepSpec == Init /\ [][StepNext]_vars

\* ------------------------------------------- parse_action, called directly

\* whitespace characters around a reply, on both sides together
MaxPad == 1

\* a character json.loads skips, and one only str.strip removes
PadChars == {SP, FF}

RECURSIVE Pads(_)
Pads(n) ==
    IF n = 0 THEN {<<>>}
    ELSE Pads(n - 1) \cup {Append(p, c) : p \in Pads(n - 1), c \in PadChars}

PadPairs == {lr \in Pads(MaxPad) \X Pads(MaxPad) : Len(lr[1]) + Len(lr[2]) <= MaxPad}

\* values of the keys "type" and "action" in a reply
DiscValues ==
    { JNull, JStr(<<>>), JNum(0), JNum(5), JBool(FALSE),
      JStr(ActionSuffix),
      JStr(Txt("Click")), JStr(Txt("Click") \o ActionSuffix),
      JStr(Txt("Navigate")), JStr(Txt("Navigate") \o ActionSuffix),
      JStr(Txt("Type")), JStr(Txt("Type") \o ActionSuffix),
      JStr(Txt("Select")), JStr(Txt("Select") \o ActionSuffix),
      JStr(Txt("Wait")), JStr(Txt("Wait") \o ActionSuffix),
      JStr(Txt("Scroll")), JStr(Txt("Scroll") \o ActionSuffix) }

\* <<type, action>>: one key, none, or both
DiscPairs ==
    {<<t, Missing>> : t \in DiscValues} \cup {<<Missing, a>> : a \in DiscValues}
    \cup {<<Missing, Missing>>}
    \cup ({JNull, JStr(<<>>), JNum(0), JBool(FALSE), JNum(5), JStr(Txt("Click"))}
           \X {JNull, JStr(Txt("Wait")), JStr(Txt("Type") \o ActionSuffix)})

\* values of the key "selector": absent, null, two well-formed selectors,
\* an unknown selector type, a selector without value, and a string
SelectorChoices ==
    { Missing, JNull,
      JObj([type |-> JStr(Txt("xpathSelector")), value |-> JStr(Txt("//button[@id='b']"))]),
      JObj([type |-> JStr(Txt("attributeValueSelector")), attribute |-> JStr(Txt("id")),
            value |-> JStr(Txt("b"))]),
      JObj([type |-> JStr(Txt("cssSelector")), value |-> JStr(Txt("#b"))]),
      JObj([type |-> JStr(Txt("xpathSelector"))]),
      JStr(Txt("#b")) }

Fields(url, text, value, time_seconds) ==
    [url |-> url, text |-> text, value |-> value, time_seconds |-> time_seconds]

\* values of the shape-specific keys: absent, well-typed, and of a type the
\* shape rejects
FieldChoices ==
    { Fields(Missing, Missing, Missing, Missing),
      Fields(JStr(Txt("https://example.com")), Missing, Missing, Missing),
      Fields(Missing, JStr(Txt("hello")), JStr(Txt("opt1")), Missing),
      Fields(Missing, Missing, Missing, JNum(2)),
      Fields(JNull, JStr(<<>>), JStr(<<>>), JStr(<<NumLit(2)>>)),
      Fields(JNum(5), JNum(5), JNull, JStr(Txt("soon"))) }

\* the JSON object with the keys that are given
ActionObject(type_value, action_value, selector_value, f) ==
    LET all == [type |-> type_value, action |-> action_value, selector |-> selector_value,
                url |-> f.url, text |-> f.text, value |-> f.value,
                time_seconds |-> f.time_seconds]
    IN  JObj([k \in {k \in DOMAIN all : all[k] # Missing} |-> all[k]])

ActionObjects ==
    {ActionObject(d[1], d[2], sel, f) :
        d \in DiscPairs, sel \in SelectorChoices, f \in FieldChoices}

\* reply texts without surrounding whitespace: JSON objects, other JSON
\* documents, a float constant, plain text, a prefaced and a repeated document,
\* and nothing
Cores ==
    {JsonText(o) : o \in ActionObjects}
    \cup {JsonText(v) : v \in {JNum(5), JNull, JBool(TRUE), JArr(<<>>),
                                JStr(Txt("click #login-btn"))}}
    \cup { <<FloatConst("NaN")>>,
           Txt("click #login-btn"),
           <<Lit("click"), SP, Lit("#login-btn")>>,
           <<Lit("Here is the action:"), NL>> \o JsonText(ClickJson),
           JsonText(ClickJson) \o <<SP>> \o JsonText(ClickJson),
           <<>> }

\* the texts parse_action is called with
ParseInputs == {lr[1] \o core \o lr[2] : lr \in PadPairs, core \in Cores}

\* parse_action(action_text) as its caller sees it, had the second try
\* block had no except
ParseCallUncaught(action_text) ==
    LET loaded == json_loads(action_text)
    IN  IF action_text # <<>> /\ loaded.ok /\ ~BuildAction(loaded.val).ok
        THEN [exc |-> Txt("Failed to parse action JSON"), log |-> <<>>]
        ELSE [ret |-> parse_action(action_text), log |-> parse_action_log(action_text)]

\* parse_action(action_text) as its caller sees it, had the second except
\* caught ValueError only: data.get on a value that is no dict gets out
ParseCallCatchValueError(action_text) ==
    LET loaded == json_loads(action_text)
    IN  IF action_text # <<>> /\ loaded.ok /\ ~isinstance(loaded.val, "obj")
        THEN [exc |-> Txt("object has no attribute 'get'"), log |-> <<>>]
        ELSE [ret |-> parse_action(action_text), log |-> parse_action_log(action_text)]

\* parse_action(action_text) as its caller sees it: every path returns; log
\* is what the call logged
ParseCall(action_text) ==
    [ret |-> parse_action(action_text), log |-> parse_action_log(action_text)]

ParseInit ==
    /\ Constructed
    /\ NoTraffic
    /\ parse_arg \in ParseInputs
    /\ parse_ret = NoCall
    /\ prompt_arg = NoCall
    /\ prompt_ret = NoCall

\* action_generator.parse_action(parse_arg)
Parse ==
    /\ parse_ret = NoCall
    /\ parse_ret' = ParseCall(parse_arg)
    /\ UNCHANGED <<service, parse_arg, prompt_arg, prompt_ret>>

\* action_generator.parse_action(...) called again, on what it returned
Reparse ==
    /\ "ret" \in DOMAIN parse_ret
    /\ parse_arg' = parse_ret.ret
    /\ parse_ret' = ParseCall(parse_ret.ret)
    /\ UNCHANGED <<service, prompt_arg, prompt_ret>>

ParseNext == Parse \/ Reparse

ParseSpec == ParseInit /\ [][ParseNext]_vars

\* ---------------------------------- _build_action_prompt, called directly

\* entries of the history of a direct call
MaxHistory == 3

\* history entries: action and result, an empty result, no result key, no
\* action key, a null result
HistoryEntries ==
    { JObj([action |-> JStr(Txt("navigate https://example.com")),
            result |-> JStr(Txt("Page loaded"))]),
      JObj([action |-> JStr(Txt("click #login-btn")), result |-> JStr(<<>>)]),
      JObj([action |-> JStr(Txt("type #username testuser"))]),
      JObj([result |-> JStr(Txt("Button clicked"))]),
      JObj([action |-> JStr(Txt("wait")), result |-> JNull]) }

RECURSIVE Histories(_)
Histories(n) ==
    IF n = 0 THEN {<<>>}
    ELSE Histories(n - 1) \cup {Append(h, e) : h \in Histories(n - 1), e \in HistoryEntries}

\* the arguments of _build_action_prompt
PromptArgs ==
    [prompt : {Txt("Login with username testuser")},
     optimized_html : {Txt("<html><body><input id='username'></body></html>")},
     step_index : {0, 2},
     history : Histories(MaxHistory),
     url : {Txt("https://example.com/login")}]

PromptInit ==
    /\ Constructed
    /\ NoTraffic
    /\ parse_arg = NoCall
    /\ parse_ret = NoCall
    /\ prompt_arg \in PromptArgs
    /\ prompt_ret = NoCall

\* action_generator._build_action_prompt(**prompt_arg)
BuildPrompt ==
    /\ prompt_ret = NoCall
    /\ prompt_ret' =
            [ret |-> build_action_prompt(prompt_arg.prompt, prompt_arg.optimized_html,
                                         prompt_arg.step_index, prompt_arg.history,
                                         prompt_arg.url)]
    /\ UNCHANGED <<service, parse_arg, parse_ret, prompt_arg>>

PromptNext == BuildPrompt

PromptSpec == PromptInit /\ [][PromptNext]_vars

\* ------------------------------------------------------------- claims

Done(r) == pc[r] = "done"

\* the provider returned a str to the i-th call of request r
Returned(r, i) ==
    /\ Len(replies[r]) >= i
    /\ "ret" \in DOMAIN replies[r][i]
    /\ replies[r][i].ret.j = "str"

\* the i-th call of request r raised: the provider's exception, or the
\* AttributeError of stripping a content that is no str
Raised(r, i) == Len(replies[r]) >= i /\ ~Returned(r, i)

RaisedMessage(r, i) ==
    IF "exc" \in DOMAIN replies[r][i] THEN replies[r][i].exc
    ELSE Txt("'list' object has no attribute 'strip'")

\* what optimize / generate_action returned for the i-th call of request r
Output(r, i) == strip(replies[r][i].ret.s)

ErrorPrefix == <<Lit("Error processing action:"), SP>>

\* C1: a schema-valid request whose reducer and generator calls both succeed
\* is answered 200 with action = parse_action(generator output) and with the
\* task_id and step_index of the posted body.
C1_SuccessResponse ==
    \A r \in Requests :
        (Done(r) /\ Returned(r, 1) /\ Returned(r, 2)) =>
            /\ Len(responses[r]) = 1
            /\ responses[r][1].status = 200
            /\ responses[r][1].body.action = parse_action(Output(r, 2))
            /\ responses[r][1].body.task_id = body[r].task_id.s
            /\ responses[r][1].body.step_index = body[r].step_index.n

\* a request with history, at step 1, answered 200 with a rendered Click shape
C1_Witness ==
    \E r \in Requests :
        /\ Done(r) /\ Returned(r, 1) /\ Returned(r, 2)
        /\ body[r].step_index.n = 1 /\ body[r].history.a # <<>>
        /\ responses[r][1].status = 200
        /\ responses[r][1].body.action # <<>>
        /\ responses[r][1].body.action[1].tok = "repr"

StepOrder == <<"optimize", "ainvoke", "generate_action", "ainvoke", "parse_action">>

\* C2: per request the invocations are a prefix of reduce, generate, parse
\* (so each at most once); the generator is invoked only after the reducer
\* returned and gets the reducer's output with the body's prompt, step_index,
\* history and start_url; after a reducer failure nothing more is invoked.
C2_LinearOrder ==
    \A r \in Requests :
        /\ Len(calls[r]) <= Len(StepOrder)
        /\ \A i \in 1..Len(calls[r]) : calls[r][i].op = StepOrder[i]
        /\ Len(calls[r]) >= 3 =>
                /\ Returned(r, 1)
                /\ calls[r][3].optimized_html = Output(r, 1)
                /\ calls[r][3].prompt = body[r].prompt.s
                /\ calls[r][3].step_index = body[r].step_index.n
                /\ calls[r][3].history = body[r].history.a
                /\ calls[r][3].url = body[r].start_url.s
        /\ Len(calls[r]) = 5 =>
                /\ Returned(r, 2)
                /\ calls[r][5].action_text = Output(r, 2)
        /\ Raised(r, 1) => Len(calls[r]) = 2
        /\ Raised(r, 2) => Len(calls[r]) = 4

\* one request went through all three steps, the reducer's output differing
\* from the snapshot it was given, and another stopped at a failed reducer
C2_Witness ==
    \E r, q \in Requests :
        /\ Len(calls[r]) = 5
        /\ calls[r][3].optimized_html # calls[r][1].html
        /\ Raised(q, 1) /\ Done(q)

\* the ainvoke calls request r made
ProviderCalls(r) == {i \in 1..Len(calls[r]) : calls[r][i].op = "ainvoke"}

\* C3: a reducer or generator call that raises ends the request with one 500
\* whose detail is "Error processing action: " + str(e); the failed call is
\* not made again.
C3_ErrorResponse ==
    \A r \in Requests : \A i \in {1, 2} :
        Raised(r, i) =>
            /\ Done(r)
            /\ Len(replies[r]) = i
            /\ responses[r] =
                  <<[status |-> 500,
                     body |-> [detail |-> ErrorPrefix \o RaisedMessage(r, i)]]>>
            /\ Cardinality(ProviderCalls(r)) = i

\* one request failed in the reducer and one in the generator
C3_Witness ==
    \E r, q \in Requests :
        /\ Raised(r, 1) /\ "exc" \in DOMAIN replies[r][1]
        /\ Raised(q, 2) /\ "exc" \in DOMAIN replies[q][2]
        /\ responses[r][1].status = 500 /\ responses[q][1].status = 500

\* the reply text is not the JSON action schema of the prompt: not one JSON
\* document, or a JSON value no action shape is built from
SelectorSchema(v) ==
    /\ v.j = "obj"
    /\ "type" \in DOMAIN v.o /\ v.o.type.j = "str" /\ v.o.type.s \in SelectorType
    /\ "value" \in DOMAIN v.o /\ v.o.value.j = "str"
    /\ "attribute" \in DOMAIN v.o => v.o.attribute.j \in {"str", "null"}

Discriminant(v) ==
    IF "type" \in DOMAIN v.o /\ Truthy(v.o.type) THEN v.o.type
    ELSE IF "action" \in DOMAIN v.o THEN v.o.action ELSE JNull

Tag(v) ==
    LET d == Discriminant(v).s
    IN  IF Len(d) > 0 /\ d[Len(d)] = Lit("Action") THEN d ELSE Append(d, Lit("Action"))

NeedsSelector == {<<Lit(t), Lit("Action")>> : t \in {"Click", "Type", "Select"}}

ActionSchema(v) ==
    /\ v.j = "obj"
    /\ Discriminant(v).j = "str" /\ Discriminant(v).s # <<>>
    /\ ("selector" \in DOMAIN v.o /\ v.o.selector.j = "obj") => SelectorSchema(v.o.selector)
    /\ Tag(v) \in NeedsSelector => ("selector" \in DOMAIN v.o /\ v.o.selector.j = "obj")
    /\ (Tag(v) = <<Lit("Navigate"), Lit("Action")>> /\ "url" \in DOMAIN v.o)
            => v.o.url.j \in {"str", "null"}
    /\ (Tag(v) = <<Lit("Type"), Lit("Action")>> /\ "text" \in DOMAIN v.o)
            => v.o.text.j = "str"
    /\ (Tag(v) = <<Lit("Select"), Lit("Action")>> /\ "value" \in DOMAIN v.o)
            => v.o.value.j = "str"
    /\ (Tag(v) = <<Lit("Wait"), Lit("Action")>> /\ "time_seconds" \in DOMAIN v.o)
            => \/ v.o.time_seconds.j \in {"num", "null", "bool"}
               \/ IsNumericStr(v.o.time_seconds)

ParseAnomaly(text) ==
    LET core == JsonSkipRight(JsonSkipLeft(text))
    IN  \/ Len(core) # 1
        \/ core[1].tok \notin {"json", "num"}
        \/ core[1].tok = "num"
        \/ core[1].tok = "json" /\ ~ActionSchema(core[1].json)

\* C4: when the generator's reply is not the JSON action schema the request
\* still ends 200 and the action is the reply with surrounding whitespace
\* removed.
C4_ParseAnomaly200 ==
    \A r \in Requests :
        (Done(r) /\ Returned(r, 2) /\ ParseAnomaly(Output(r, 2))) =>
            /\ responses[r] # <<>>
            /\ responses[r][1].status = 200
            /\ responses[r][1].body.action = strip(replies[r][2].ret.s)

\* a plain-text reply, and a JSON object of the wrong shape (a Click without
\* selector), both answered 200
C4_Witness ==
    \E r, q \in Requests :
        /\ Done(r) /\ Returned(r, 2) /\ ~json_loads(Output(r, 2)).ok
        /\ Output(r, 2) # <<>>
        /\ Done(q) /\ Returned(q, 2) /\ json_loads(Output(q, 2)).ok
        /\ ParseAnomaly(Output(q, 2))
        /\ "action" \in DOMAIN json_loads(Output(q, 2)).val.o
        /\ responses[r][1].status = 200 /\ responses[q][1].status = 200

EmptyReply(r, i) == Returned(r, i) /\ Output(r, i) = <<>>

\* C5 as claimed: an empty or whitespace-only reply to either call ends the
\* request with 500, never 200.
C5_EmptyReplyIs500 ==
    \A r \in Requests :
        (Done(r) /\ (EmptyReply(r, 1) \/ EmptyReply(r, 2))) =>
            responses[r][1].status = 500

\* C5 amended: an empty or whitespace-only reply is no error.  After an
\* empty reduction reply the generator is called with empty reduced HTML; an
\* empty generation reply is answered 200 with the empty action; a 500 is
\* sent only when a call raised.
C5_EmptyReplyPassesThrough ==
    \A r \in Requests :
        /\ EmptyReply(r, 1) =>
                /\ Len(calls[r]) >= 4
                /\ calls[r][3].optimized_html = <<>>
                /\ calls[r][4].op = "ainvoke"
        /\ (Done(r) /\ EmptyReply(r, 2)) =>
                /\ responses[r] # <<>>
                /\ responses[r][1].status = 200
                /\ responses[r][1].body.action = <<>>
        /\ (Done(r) /\ responses[r][1].status = 500) =>
                Raised(r, 1) \/ Raised(r, 2)

\* both replies empty, answered 200 with the empty action
C5_Witness ==
    \E r \in Requests :
        /\ Done(r) /\ EmptyReply(r, 1) /\ EmptyReply(r, 2)
        /\ replies[r][2].ret.s # <<>>
        /\ responses[r][1].status = 200
        /\ responses[r][1].body.action = <<>>

\* the JSON kind class ActRequest declares for each field
FieldKinds ==
    [task_id |-> "str", prompt |-> "str", start_url |-> "str", snapshot_html |-> "str",
     step_index |-> "num", web_project_id |-> "str", history |-> "arr"]

\* a bool or a str of digits, which pydantic reads as an int
Coercible(x) == x.j = "bool" \/ (x.j = "str" /\ Len(x.s) = 1 /\ x.s[1].tok = "num")

\* a required field is missing or of a JSON kind its declaration does not take
SchemaInvalid(b) ==
    \E f \in DOMAIN FieldKinds :
        /\ b[f].j # FieldKinds[f]
        /\ ~(f = "step_index" /\ Coercible(b[f]))

\* C6: a schema-invalid body is answered 422 and neither the reducer, the
\* generator, the parser nor the provider is invoked for it.
C6_Validation422 ==
    \A r \in Requests :
        (pc[r] # "idle" /\ SchemaInvalid(body[r])) =>
            /\ Done(r)
            /\ responses[r] # <<>>
            /\ responses[r][1].status = 422
            /\ calls[r] = <<>>
            /\ replies[r] = <<>>

\* one body with fields missing and one with mistyped fields, both answered
C6_Witness ==
    \E r, q \in Requests :
        /\ Done(r) /\ body[r].history.j = "missing"
        /\ Done(q) /\ body[q].task_id.j = "num"
        /\ responses[r][1].status = 422 /\ responses[q][1].status = 422

\* C7: request processing leaves the module-level objects alone; whatever
\* the other requests did before, a request whose generation call returns is
\* answered 200 from its own body and reply; and two requests with the same
\* body and the same provider replies have the same invocations and response.
C7_Stateless ==
    [][ /\ globals' = globals
        /\ \A r \in Requests :
              (pc[r] = "generating" /\ pc'[r] = "done" /\ (Returned(r, 2))') =>
                  responses'[r] =
                      <<[status |-> 200,
                         body |-> [action |-> parse_action((Output(r, 2))'),
                                   task_id |-> body[r].task_id.s,
                                   step_index |-> body[r].step_index.n]]>>
        /\ \A r, q \in Requests :
              (body'[r] = body'[q] /\ replies'[r] = replies'[q] /\ pc'[r] = pc'[q]) =>
                  (responses'[r] = responses'[q] /\ calls'[r] = calls'[q])
      ]_vars

\* the same body answered 500 for one request and 200 for another
C7_Witness ==
    \E r, q \in Requests :
        /\ r # q /\ body[r] = body[q]
        /\ Done(q) /\ Raised(q, 1) /\ responses[q][1].status = 500
        /\ Done(r) /\ Returned(r, 2) /\ responses[r][1].status = 200

InitSettings == Settings("openai", JStr(Txt("test-key")))

\* C8: under every interleaving each request's prompts are rendered from its
\* own body, its generator gets its own reducer's output, its parser its own
\* generator's output and its response its own task_id, step_index and
\* action; the module-level objects stay as constructed.
C8_Isolation ==
    /\ settings = InitSettings
    /\ html_optimizer = [settings |-> InitSettings, llm_client |-> LLMClient(InitSettings)]
    /\ action_generator = [settings |-> InitSettings, llm_client |-> LLMClient(InitSettings)]
    /\ \A r \in Requests :
        /\ Len(calls[r]) >= 2 =>
                /\ calls[r][1].html = body[r].snapshot_html.s
                /\ calls[r][1].url = body[r].start_url.s
                /\ calls[r][1].task_context = body[r].prompt.s
                /\ calls[r][2].prompt =
                        build_optimization_prompt(body[r].snapshot_html.s,
                                                  body[r].start_url.s, body[r].prompt.s)
        /\ Len(calls[r]) >= 4 =>
                /\ calls[r][3].optimized_html = Output(r, 1)
                /\ calls[r][3].prompt = body[r].prompt.s
                /\ calls[r][3].history = body[r].history.a
                /\ calls[r][4].prompt =
                        build_action_prompt(body[r].prompt.s, Output(r, 1),
                                            body[r].step_index.n, body[r].history.a,
                                            body[r].start_url.s)
        /\ Len(calls[r]) = 5 => calls[r][5].action_text = Output(r, 2)
        /\ (Done(r) /\ Returned(r, 2)) =>
                /\ responses[r][1].body.task_id = body[r].task_id.s
                /\ responses[r][1].body.step_index = body[r].step_index.n
                /\ responses[r][1].body.action = parse_action(Output(r, 2))

\* two requests with different bodies and different reducer outputs, both
\* in flight at once, each waiting for its generation call
C8_Witness ==
    \E r, q \in Requests :
        /\ r < q
        /\ pc[r] = "generating" /\ pc[q] = "generating"
        /\ body[r] # body[q]
        /\ optimized_html[r] # optimized_html[q]

ResponseShapes ==
    [s200 |-> {"action", "task_id", "step_index"}, s422 |-> {"detail"}, s500 |-> {"detail"}]

WellFormed(resp) ==
    \/ resp.status = 200 /\ DOMAIN resp.body = ResponseShapes.s200
    \/ resp.status = 422 /\ DOMAIN resp.body = ResponseShapes.s422
    \/ resp.status = 500 /\ DOMAIN resp.body = ResponseShapes.s500
                         /\ SubSeq(resp.body.detail, 1, 2) = ErrorPrefix

\* C9: if every provider call eventually returns or raises, every received
\* request is eventually answered (a received request stays received and a
\* response stays sent, so: from some point on every received request has
\* its response); a request is answered exactly when it is finished, with
\* one response, a 200, a 422 or a 500 of the handler; a response once sent
\* is never changed or followed by another.
C9_OneResponse ==
    /\ <>[](\A r \in Requests : (pc[r] # "idle") => (Len(responses[r]) = 1))
    /\ [](\A r \in Requests :
            /\ Len(responses[r]) = (IF Done(r) THEN 1 ELSE 0)
            /\ Done(r) => WellFormed(responses[r][1]))
    /\ [][\A r \in Requests : responses[r] # <<>> => responses'[r] = responses[r]]_vars

\* every request answered: a 500 among the responses and a 200
C9_Witness ==
    /\ \A r \in Requests : Done(r) /\ Len(responses[r]) = 1
    /\ \E r, q \in Requests :
            responses[r][1].status = 500 /\ responses[q][1].status = 200

\* C10: GET /health can be served in every state and each call answers 200
\* {status: "healthy"}, whatever /act requests are in flight or have failed,
\* without an invocation of a component or of the provider.
C10_HealthAlways200 ==
    [][ /\ ENABLED Health
        /\ (ENABLED Health)'
        /\ health_responses' \subseteq {[status |-> 200, body |-> [status |-> "healthy"]]}
        /\ (health_responses' # health_responses) =>
              (calls' = calls /\ replies' = replies /\ pc' = pc)
      ]_vars

\* /health answered while one /act request has failed and another is in flight
C10_Witness ==
    /\ health_responses # {}
    /\ \A h \in health_responses : h.status = 200
    /\ \E r, q \in Requests :
            /\ pc[r] \in {"reducing", "generating"}
            /\ Done(q) /\ responses[q][1].status = 500

SupportedProviders == {"openai", "anthropic", "google"}

\* the credential configured for the provider s names
CredentialOf(s) ==
    CASE s.llm_provider = "openai" -> s.openai_api_key
      [] s.llm_provider = "anthropic" -> s.anthropic_api_key
      [] s.llm_provider = "google" -> s.google_api_key

Misconfigured(s) ==
    \/ s.llm_provider \notin SupportedProviders
    \/ CredentialOf(s) = None

\* C11: with a provider that is not openai, anthropic or google, or without
\* the credential of the configured provider, the import of main.py ends in
\* the ValueError of the first component's construction: no component exists,
\* no /act or /health request is ever received, invoked or answered, so the
\* failure is no 500 of a request; whenever a request is served both
\* components were constructed from a supported provider with its key.
C11_ConfigurationErrorAtStart ==
    /\ Misconfigured(settings) =>
            /\ ~Up
            /\ html_optimizer = NotStarted \/ "error" \in DOMAIN html_optimizer
            /\ action_generator = NotStarted
            /\ \A r \in Requests :
                    pc[r] = "idle" /\ calls[r] = <<>> /\ responses[r] = <<>>
            /\ health_responses = {}
    /\ (health_responses # {} \/ \E r \in Requests : pc[r] # "idle") =>
            /\ Up
            /\ settings.llm_provider \in SupportedProviders
            /\ CredentialOf(settings) # None

\* the import has failed with the provider set to anthropic and only the
\* OpenAI key present
C11_Witness ==
    /\ settings.llm_provider = "anthropic"
    /\ settings.openai_api_key # None
    /\ settings.anthropic_api_key = None
    /\ html_optimizer # NotStarted
    /\ "error" \in DOMAIN html_optimizer

\* the direct call of parse_action has returned or raised
Called == parse_ret # NoCall

\* it returned (it did not raise)
ReturnedText == "ret" \in DOMAIN parse_ret

\* a text of RFC 8259: one JSON document between JSON whitespace
ValidJson(s) ==
    LET core == JsonSkipRight(JsonSkipLeft(s))
    IN  Len(core) = 1 /\ core[1].tok \in {"json", "num"}

\* the value of a text that is valid JSON
JsonValue(s) ==
    LET t == JsonSkipRight(JsonSkipLeft(s))[1]
    IN  IF t.tok = "num" THEN JNum(t.num) ELSE t.json

\* the text is the rendering str(obj) of a constructed shape
IsRendered(text) == Len(text) = 1 /\ text[1].tok = "repr"

IsJsonObject(s) == ValidJson(s) /\ JsonValue(s).j = "obj"

\* the keys of the JSON object
Keys(s) == DOMAIN JsonValue(s).o

\* C13: for a JSON object with neither a "type" nor an "action" key,
\* parse_action returns the text trimmed, and not a rendered shape.
C13_NoDiscriminantFallsBack ==
    (Called /\ IsJsonObject(parse_arg) /\ "type" \notin Keys(parse_arg)
        /\ "action" \notin Keys(parse_arg)) =>
            /\ parse_ret.ret = strip(parse_arg)
            /\ ~IsRendered(parse_ret.ret)

\* an object with a well-formed selector and a text but no discriminant key,
\* padded with a space, came back trimmed
C13_Witness ==
    /\ Called /\ IsJsonObject(parse_arg)
    /\ Keys(parse_arg) = {"selector", "text", "value"}
    /\ SelectorSchema(JsonValue(parse_arg).o.selector)
    /\ parse_arg[1] = SP
    /\ parse_ret.ret = <<parse_arg[2]>>

\* C14: parse_action raises for no text: every call returns, either the
\* rendering of the shape constructed from the text's JSON object or the
\* text trimmed, also where reading the discriminant, building the selector
\* or building the shape raised.
C14_NeverRaises ==
    Called =>
        /\ ReturnedText
        /\ \/ parse_ret.ret = strip(parse_arg)
           \/ /\ IsRendered(parse_ret.ret)
              /\ IsJsonObject(parse_arg)
              /\ BuildAction(JsonValue(parse_arg)).ok
              /\ parse_ret.ret[1].repr = BuildAction(JsonValue(parse_arg)).obj

\* a Click object whose selector object has no value: Selector(**selector_data)
\* raised inside the call and the call returned the text
C14_Witness ==
    /\ Called /\ IsJsonObject(parse_arg)
    /\ Keys(parse_arg) = {"action", "selector"}
    /\ JsonValue(parse_arg).o.action = JStr(Txt("Click") \o ActionSuffix)
    /\ JsonValue(parse_arg).o.selector.j = "obj"
    /\ ~Selector(JsonValue(parse_arg).o.selector).ok
    /\ ReturnedText /\ parse_ret.ret = strip(parse_arg)

\* what parse_action returns for the text when its second try block has
\* built the shape, or raised
Outcome(built, text) == IF built.ok THEN <<Repr(built.obj)>> ELSE strip(text)

\* the object v with d as its only discriminant, under the key "type"
WithDiscriminant(v, d) ==
    JObj([k \in (DOMAIN v.o \ {"type", "action"}) \cup (IF d = JNull THEN {} ELSE {"type"})
            |-> IF k = "type" THEN d ELSE v.o[k]])

\* the first non-null of the keys "type" then "action"
FirstNonNull(v) ==
    IF "type" \in DOMAIN v.o /\ v.o.type # JNull THEN v.o.type
    ELSE IF "action" \in DOMAIN v.o THEN v.o.action
    ELSE JNull

\* the first of the keys "type" then "action" whose value is true for `or`:
\* not null, not "", not 0, not false, not [] and not {}
FirstTruthy(v) ==
    IF "type" \in DOMAIN v.o /\ Truthy(v.o.type) THEN v.o.type
    ELSE IF "action" \in DOMAIN v.o THEN v.o.action
    ELSE JNull

\* C15 as claimed: the discriminant is the first non-null of "type" then
\* "action": the call returns what the object gives with that value as its
\* only discriminant, "action" being ignored whenever "type" is non-null.
C15_FirstNonNull ==
    (Called /\ IsJsonObject(parse_arg)) =>
        parse_ret.ret =
            Outcome(BuildAction(WithDiscriminant(JsonValue(parse_arg),
                                                 FirstNonNull(JsonValue(parse_arg)))),
                    parse_arg)

\* C15 amended: the discriminant is the first truthy of "type" then
\* "action": "type" wins whenever it is present and neither null, "", 0 nor
\* false, and "action" is used when "type" is absent or falsy.
C15_FirstTruthy ==
    (Called /\ IsJsonObject(parse_arg)) =>
        parse_ret.ret =
            Outcome(BuildAction(WithDiscriminant(JsonValue(parse_arg),
                                                 FirstTruthy(JsonValue(parse_arg)))),
                    parse_arg)

\* {"type": "", "action": "Wait"}: "type" is present and non-null, and the
\* call returned the Wait shape of "action"
C15_Witness ==
    /\ Called /\ IsJsonObject(parse_arg)
    /\ Keys(parse_arg) = {"type", "action"}
    /\ JsonValue(parse_arg).o.type = JStr(<<>>)
    /\ JsonValue(parse_arg).o.action = JStr(Txt("Wait"))
    /\ IsRendered(parse_ret.ret)
    /\ parse_ret.ret[1].repr.type = Txt("Wait") \o ActionSuffix

\* the key the discriminant of the object is read from
DiscKey(v) == IF "type" \in DOMAIN v.o /\ Truthy(v.o.type) THEN "type" ELSE "action"

\* the object has a string as its discriminant
HasStringDiscriminant(v) == FirstTruthy(v).j = "str"

\* the same object with "Action" appended to its discriminant
Suffixed(v) == JObj([v.o EXCEPT ![DiscKey(v)] = JStr(@.s \o ActionSuffix)])

\* the same text with "Action" appended to the discriminant of its object
SuffixedText(s) ==
    [i \in 1..Len(s) |-> IF s[i].tok = "json" THEN Doc(Suffixed(s[i].json)) ELSE s[i]]

\* the call was made on an object whose discriminant does not end in "Action"
Unsuffixed ==
    /\ Called /\ IsJsonObject(parse_arg)
    /\ HasStringDiscriminant(JsonValue(parse_arg))
    /\ ~endswith(FirstTruthy(JsonValue(parse_arg)).s, ActionSuffix)

\* the type tag a discriminant d stands for
NormalTag(d) == IF endswith(d, ActionSuffix) THEN d ELSE d \o ActionSuffix

\* a rendered shape carries the discriminant as its tag, with "Action"
\* appended only where the discriminant does not end in it
TagKept ==
    (Called /\ IsJsonObject(parse_arg) /\ IsRendered(parse_ret.ret)) =>
        /\ HasStringDiscriminant(JsonValue(parse_arg))
        /\ parse_ret.ret[1].repr.type = NormalTag(FirstTruthy(JsonValue(parse_arg)).s)

\* C16 as claimed: an object with a discriminant d not ending in "Action" and
\* the same object with d + "Action" give the same parse_action output, and a
\* discriminant ending in "Action" is left unchanged.
C16_SameOutput ==
    /\ Unsuffixed => parse_ret.ret = parse_action(SuffixedText(parse_arg))
    /\ TagKept

\* C16 amended: for a non-empty discriminant d not ending in "Action" the two
\* objects are parsed alike: the same shape is built from both and rendered
\* identically, or the shape fails for both and each call returns its own
\* text trimmed; a discriminant ending in "Action" is the tag unchanged.
C16_SameShape ==
    /\ (Unsuffixed /\ FirstTruthy(JsonValue(parse_arg)).s # <<>>) =>
        /\ BuildAction(JsonValue(parse_arg)) = BuildAction(Suffixed(JsonValue(parse_arg)))
        /\ IsRendered(parse_ret.ret) =>
                parse_ret.ret = parse_action(SuffixedText(parse_arg))
        /\ ~IsRendered(parse_ret.ret) =>
                /\ parse_ret.ret = strip(parse_arg)
                /\ parse_action(SuffixedText(parse_arg)) = strip(SuffixedText(parse_arg))
    /\ TagKept

\* "Click" with a well-formed selector was rendered as the ClickAction shape
\* that "ClickAction" gives
C16_Witness ==
    /\ Unsuffixed
    /\ FirstTruthy(JsonValue(parse_arg)) = JStr(Txt("Click"))
    /\ IsRendered(parse_ret.ret)
    /\ parse_ret.ret[1].repr.type = Txt("Click") \o ActionSuffix
    /\ parse_ret.ret = parse_action(SuffixedText(parse_arg))
    /\ SuffixedText(parse_arg) # parse_arg

ClickTag == Txt("Click") \o ActionSuffix
NavigateTag == Txt("Navigate") \o ActionSuffix
TypeTag == Txt("Type") \o ActionSuffix
SelectTag == Txt("Select") \o ActionSuffix
WaitTag == Txt("Wait") \o ActionSuffix

FiveTags == {ClickTag, NavigateTag, TypeTag, SelectTag, WaitTag}

\* the normalized discriminant of the object parse_action was called with
TagOfArg == NormalTag(FirstTruthy(JsonValue(parse_arg)).s)

\* the call was made on a JSON object with a string discriminant
Tagged ==
    /\ Called /\ IsJsonObject(parse_arg)
    /\ HasStringDiscriminant(JsonValue(parse_arg))
    /\ FirstTruthy(JsonValue(parse_arg)).s # <<>>

\* the object carries a well-formed selector object
HasSelector(v) ==
    "selector" \in DOMAIN v.o /\ v.o.selector.j = "obj" /\ SelectorSchema(v.o.selector)

\* the object carries a selector object that is not well-formed
MalformedSelector(v) ==
    "selector" \in DOMAIN v.o /\ v.o.selector.j = "obj" /\ ~SelectorSchema(v.o.selector)

\* the Selector of a well-formed selector object
ExpectedSelector(v) ==
    LET sd == v.o.selector.o
    IN  [j |-> "Selector", type |-> sd.type.s,
         attribute |-> IF "attribute" \in DOMAIN sd THEN sd.attribute ELSE JNull,
         value |-> sd.value.s]

\* the float of a number or of a string of digits
NumberOf(x) == IF x.j = "str" THEN JNum(x.s[1].num) ELSE x

\* the shape of each of the five tags, with the defaults of absent keys
ExpectedShape(v, tag) ==
    CASE tag = ClickTag -> [type |-> tag, selector |-> ExpectedSelector(v)]
      [] tag = NavigateTag ->
            [type |-> tag, selector |-> JNull,
             url |-> IF "url" \in DOMAIN v.o THEN v.o.url ELSE JNull]
      [] tag = TypeTag ->
            [type |-> tag, selector |-> ExpectedSelector(v),
             text |-> IF "text" \in DOMAIN v.o THEN v.o.text.s ELSE <<>>]
      [] tag = SelectTag ->
            [type |-> tag, selector |-> ExpectedSelector(v),
             value |-> IF "value" \in DOMAIN v.o THEN v.o.value.s ELSE <<>>]
      [] tag = WaitTag ->
            [type |-> tag, selector |-> JNull,
             time_seconds |-> IF "time_seconds" \in DOMAIN v.o
                              THEN NumberOf(v.o.time_seconds) ELSE JNull]

\* a rendered shape of one of the five tags is the shape of that tag, and a
\* Click, Type or Select object with a well-formed selector whose text or
\* value key is absent is constructed with the default
DispatchAndDefaults ==
    (Tagged /\ TagOfArg \in FiveTags) =>
        LET v == JsonValue(parse_arg)
        IN  /\ IsRendered(parse_ret.ret) =>
                    parse_ret.ret[1].repr = ExpectedShape(v, TagOfArg)
            /\ (TagOfArg = ClickTag /\ HasSelector(v)) => IsRendered(parse_ret.ret)
            /\ (TagOfArg = TypeTag /\ HasSelector(v) /\ "text" \notin DOMAIN v.o) =>
                    IsRendered(parse_ret.ret)
            /\ (TagOfArg = SelectTag /\ HasSelector(v) /\ "value" \notin DOMAIN v.o) =>
                    IsRendered(parse_ret.ret)

\* C17 as claimed: the five tags are dispatched to their shapes with the
\* defaults, and every Wait object without time_seconds and every Navigate
\* object without url is a constructed shape, not a fallback.
C17_DispatchNoFallback ==
    /\ DispatchAndDefaults
    /\ (Tagged /\ TagOfArg = WaitTag /\ "time_seconds" \notin Keys(parse_arg)) =>
            IsRendered(parse_ret.ret)
    /\ (Tagged /\ TagOfArg = NavigateTag /\ "url" \notin Keys(parse_arg)) =>
            IsRendered(parse_ret.ret)

\* C17 amended: the five tags are dispatched to their shapes with the
\* defaults; a Wait object without time_seconds and a Navigate object
\* without url are constructed shapes exactly when they carry no malformed
\* selector object, and fall back to the trimmed text when they carry one.
C17_DispatchWithDefaults ==
    /\ DispatchAndDefaults
    /\ (Tagged /\ TagOfArg = WaitTag /\ "time_seconds" \notin Keys(parse_arg)) =>
            (IsRendered(parse_ret.ret) <=> ~MalformedSelector(JsonValue(parse_arg)))
    /\ (Tagged /\ TagOfArg = NavigateTag /\ "url" \notin Keys(parse_arg)) =>
            (IsRendered(parse_ret.ret) <=> ~MalformedSelector(JsonValue(parse_arg)))
    /\ (Tagged /\ TagOfArg \in {WaitTag, NavigateTag}
            /\ MalformedSelector(JsonValue(parse_arg))) =>
            parse_ret.ret = strip(parse_arg)

\* a Type object with a well-formed selector and no text key was rendered as
\* a Type shape with the empty text
C17_Witness ==
    /\ Tagged /\ TagOfArg = TypeTag
    /\ "text" \notin Keys(parse_arg)
    /\ HasSelector(JsonValue(parse_arg))
    /\ IsRendered(parse_ret.ret)
    /\ parse_ret.ret[1].repr.text = <<>>
    /\ parse_ret.ret[1].repr.selector = ExpectedSelector(JsonValue(parse_arg))

NeedSelectorTags == {ClickTag, TypeTag, SelectTag}

\* the object has no selector object: the key is absent, null or no object
NoSelectorObject(v) == "selector" \notin DOMAIN v.o \/ v.o.selector.j # "obj"

\* C18: no call returns the rendering of a Click, Type or Select shape with
\* a null selector; a ClickAction, TypeAction or SelectAction object whose
\* selector is missing, null or not an object comes back as the trimmed text.
C18_SelectorRequired ==
    /\ (Called /\ IsRendered(parse_ret.ret)
            /\ parse_ret.ret[1].repr.type \in NeedSelectorTags) =>
            /\ parse_ret.ret[1].repr.selector # None
            /\ parse_ret.ret[1].repr.selector.j = "Selector"
    /\ (Tagged /\ TagOfArg \in NeedSelectorTags
            /\ NoSelectorObject(JsonValue(parse_arg))) =>
            /\ parse_ret.ret = strip(parse_arg)
            /\ ~IsRendered(parse_ret.ret)

\* a TypeAction object with a text and the selector null came back as its
\* own text
C18_Witness ==
    /\ Tagged /\ TagOfArg = TypeTag
    /\ "selector" \in Keys(parse_arg)
    /\ JsonValue(parse_arg).o.selector = JNull
    /\ "text" \in Keys(parse_arg) /\ JsonValue(parse_arg).o.text.j = "str"
    /\ parse_ret.ret = strip(parse_arg)
    /\ ~IsRendered(parse_ret.ret)

\* the generic shape: the tag, and the selector of the object or null
GenericShape(v, tag) ==
    [type |-> tag, selector |-> IF HasSelector(v) THEN ExpectedSelector(v) ELSE JNull]

\* the call was made on an object whose normalized discriminant is none of
\* the five known tags
UnknownTag == Tagged /\ TagOfArg \notin FiveTags

\* C19 as claimed: every object with an unknown tag is rendered as the
\* generic shape of its tag and optional selector, and never falls back.
C19_UnknownTagNeverFallsBack ==
    UnknownTag =>
        /\ IsRendered(parse_ret.ret)
        /\ parse_ret.ret[1].repr = GenericShape(JsonValue(parse_arg), TagOfArg)

\* C19 amended: an object with an unknown tag is rendered as the generic
\* shape carrying only the tag and the selector (null when no selector object
\* is given), whatever other keys it has, unless it carries a malformed
\* selector object: then the call falls back to the trimmed text.
C19_UnknownTagGeneric ==
    UnknownTag =>
        IF MalformedSelector(JsonValue(parse_arg))
        THEN parse_ret.ret = strip(parse_arg)
        ELSE /\ IsRendered(parse_ret.ret)
             /\ parse_ret.ret[1].repr = GenericShape(JsonValue(parse_arg), TagOfArg)

\* a "Scroll" object with a text and a value and no selector was rendered as
\* the shape with the tag ScrollAction and a null selector, and nothing else
C19_Witness ==
    /\ UnknownTag
    /\ TagOfArg = Txt("Scroll") \o ActionSuffix
    /\ Keys(parse_arg) = {"action", "text", "value"}
    /\ IsRendered(parse_ret.ret)
    /\ parse_ret.ret[1].repr = [type |-> TagOfArg, selector |-> JNull]

\* the direct call of _build_action_prompt has returned
Prompted == "ret" \in DOMAIN prompt_ret

\* the first place of the token t in the text s
IndexOf(s, t) == CHOOSE i \in 1..Len(s) : s[i] = t /\ \A k \in 1..(i - 1) : s[k] # t

\* what the prompt shows between the line "Previous Actions:" and the blank
\* line before "Current Page HTML (optimized):"
PreviousActions(text) ==
    SubSeq(text, IndexOf(text, Lit("Previous Actions:")) + 2,
                 IndexOf(text, Lit("Current Page HTML (optimized):")) - 3)

\* the lines of a text
RECURSIVE SplitLines(_)
SplitLines(s) ==
    IF \A i \in 1..Len(s) : s[i] # NL THEN <<s>>
    ELSE LET n == IndexOf(s, NL)
         IN  <<SubSeq(s, 1, n - 1)>> \o SplitLines(SubSeq(s, n + 1, Len(s)))

Sentinel == <<Lit("No previous actions")>>

\* a line "Step k: ..."
IsStepLine(line) ==
    /\ Len(line) >= 4
    /\ line[1] = Lit("Step") /\ line[2] = SP /\ line[3].tok = "num" /\ line[4] = Lit(":")

\* a line "  Result: ..."
IsResultLine(line) ==
    Len(line) >= 3 /\ line[1] = SP /\ line[2] = SP /\ line[3] = Lit("Result:")

\* the entry has a result that is not empty
HasResult(entry) ==
    "result" \in DOMAIN entry.o /\ entry.o.result \notin {JNull, JStr(<<>>)}

\* C20: in the generation prompt an empty history is shown as "No previous
\* actions", and only an empty history is; a history of N >= 1 entries is
\* shown as N "Step k:" lines numbered 1..N in list order whatever the
\* step_index, the k-th followed by a "  Result:" line exactly when the k-th
\* entry has a non-empty result, and no other line.
C20_HistoryRendering ==
    Prompted =>
        LET history == prompt_arg.history
            lines == SplitLines(PreviousActions(prompt_ret.ret))
            steps == {i \in 1..Len(lines) : IsStepLine(lines[i])}
        IN  /\ (history = <<>>) <=> (PreviousActions(prompt_ret.ret) = Sentinel)
            /\ history # <<>> =>
                /\ Cardinality(steps) = Len(history)
                /\ \A i \in steps :
                    LET k == Cardinality({n \in steps : n <= i})
                    IN  /\ lines[i][3] = NumLit(k)
                        /\ (i < Len(lines) /\ IsResultLine(lines[i + 1]))
                                <=> HasResult(history[k])
                /\ \A i \in 1..Len(lines) : IsStepLine(lines[i]) \/ IsResultLine(lines[i])
                /\ IsStepLine(lines[1])

\* a history of three entries at step_index 0, the first with a result and
\* the second with an empty one, shown as "Step 1:", "  Result:", "Step 2:",
\* "Step 3:"
C20_Witness ==
    /\ Prompted
    /\ prompt_arg.step_index = 0
    /\ Len(prompt_arg.history) = 3
    /\ HasResult(prompt_arg.history[1])
    /\ "result" \in DOMAIN prompt_arg.history[2].o
    /\ prompt_arg.history[2].o.result = JStr(<<>>)
    /\ ~HasResult(prompt_arg.history[3])
    /\ LET lines == SplitLines(PreviousActions(prompt_ret.ret))
       IN  /\ Len(lines) = 4
           /\ lines[1][3] = NumLit(1) /\ IsResultLine(lines[2])
           /\ lines[3][3] = NumLit(2) /\ lines[4][3] = NumLit(3)

\* the action words of test_action_types_in_prompt, and the literals of the
\* template and of the call's arguments whose lower-cased text contains them
\* (w in s.lower())
LowerContains ==
    { <<"ClickAction", "click">>, <<"NavigateAction", "navigate">>,
      <<"TypeAction", "type">>, <<"SelectAction", "select">>,
      <<"WaitAction", "wait">>,
      <<"navigate https://example.com", "navigate">>,
      <<"click #login-btn", "click">>, <<"Button clicked", "click">>,
      <<"type #username testuser", "type">>, <<"wait", "wait">> }

\* w in text.lower()
InLower(text, w) ==
    \E i \in 1..Len(text) :
        text[i].tok = "lit" /\ <<text[i].lit, w>> \in LowerContains

\* the lines of the prompt under "Available Actions", up to the blank line
AvailableActions(text) ==
    SubSeq(text, IndexOf(text, Lit("Available Actions")) + 2,
                 IndexOf(text, Lit("Available Selectors")) - 3)

\* C21: the rendered action-generation prompt names the available action
\* types, and, without regard to case, "click", "type", "navigate" and "done"
\* are among the names it shows.
C21_NamesDone ==
    Prompted =>
        \A w \in {"click", "type", "navigate", "done"} : InLower(prompt_ret.ret, w)

\* what the template does name: its "Available Actions" block lists
\* ClickAction, NavigateAction, TypeAction, SelectAction and WaitAction, so
\* click, type and navigate are named and "done" is not
C21_NamesFiveActions ==
    Prompted =>
        /\ SplitLines(AvailableActions(prompt_ret.ret)) =
                << <<Lit("ClickAction")>>, <<Lit("NavigateAction")>>,
                   <<Lit("TypeAction")>>, <<Lit("SelectAction")>>,
                   <<Lit("WaitAction")>> >>
        /\ \A w \in {"click", "type", "navigate"} : InLower(prompt_ret.ret, w)
        /\ ~InLower(prompt_ret.ret, "done")

\* a prompt built for an empty history: the only action words in it are the
\* template's
C21_Witness ==
    /\ Prompted
    /\ prompt_arg.history = <<>>
    /\ InLower(AvailableActions(prompt_ret.ret), "click")
    /\ ~InLower(prompt_ret.ret, "done")

\* the handle of a model profile, as the settings describe it
ProfileHandle(model, temperature, max_tokens) ==
    [ok |-> TRUE, provider |-> settings.llm_provider, model |-> model,
     temperature |-> temperature, max_tokens |-> max_tokens]

ReductionHandle ==
    ProfileHandle(settings.html_optimization_model,
                  settings.html_optimization_temperature,
                  settings.html_optimization_max_tokens)

GenerationHandle ==
    ProfileHandle(settings.action_generation_model,
                  settings.action_generation_temperature,
                  settings.action_generation_max_tokens)

\* C22: every gateway call is one exchange on one handle built at
\* construction: the reducer's call goes to the reduction handle (reduction
\* model, temperature and max tokens), the generator's to the
\* action-generation handle, never to the other one; a call is answered at
\* most once and a call that raised is not made again; what the component
\* gets is the content of that one reply.
C22_SingleExchange ==
    /\ html_optimizer.llm_client.html_optimization_llm = ReductionHandle
    /\ action_generator.llm_client.action_generation_llm = GenerationHandle
    /\ ReductionHandle # GenerationHandle
    /\ \A r \in Requests :
        /\ ProviderCalls(r) \subseteq {2, 4}
        /\ Len(replies[r]) <= Cardinality(ProviderCalls(r))
        /\ Cardinality(ProviderCalls(r)) <= Len(replies[r]) + 1
        /\ 2 \in ProviderCalls(r) =>
                /\ calls[r][1].op = "optimize"
                /\ calls[r][2].llm = ReductionHandle
        /\ 4 \in ProviderCalls(r) =>
                /\ calls[r][3].op = "generate_action"
                /\ calls[r][4].llm = GenerationHandle
        /\ \A i \in {1, 2} : Raised(r, i) => Cardinality(ProviderCalls(r)) = i
        /\ (Returned(r, 1) /\ Len(calls[r]) >= 3) =>
                calls[r][3].optimized_html = strip(replies[r][1].ret.s)
        /\ (Returned(r, 2) /\ Len(calls[r]) = 5) =>
                calls[r][5].action_text = strip(replies[r][2].ret.s)

\* one request made both calls and got both replies; another made both and
\* its generation call raised, without a third call
C22_Witness ==
    \E r, q \in Requests :
        /\ Returned(r, 1) /\ Returned(r, 2)
        /\ calls[r][2].llm.model = "gpt-4o-mini" /\ calls[r][4].llm.model = "gpt-4o"
        /\ Raised(q, 2) /\ "exc" \in DOMAIN replies[q][2]
        /\ ProviderCalls(q) = {2, 4}

\* out is text without its leading and trailing whitespace and nothing else
\* changed: text = whitespace, out, whitespace, and out neither starts nor
\* ends with whitespace
Trimmed(text, out) ==
    /\ \E i \in 0..Len(text) :
        /\ i + Len(out) <= Len(text)
        /\ SubSeq(text, i + 1, i + Len(out)) = out
        /\ \A k \in (1..i) \cup ((i + Len(out) + 1)..Len(text)) : IsPyWs(text[k])
    /\ out # <<>> => ~IsPyWs(out[1]) /\ ~IsPyWs(out[Len(out)])

\* the gateway raised on the i-th call of request r
GatewayRaised(r, i) == Len(replies[r]) >= i /\ "exc" \in DOMAIN replies[r][i]

\* C23: optimize returns the gateway's reply trimmed and generate_action
\* returns the gateway's reply trimmed, whatever the reply says (empty, no
\* HTML, no JSON: neither checks it); an exception of the gateway leaves
\* either operation as it was raised, so that the handler reports that very
\* message and the operation yields no value.
C23_TrimOnly ==
    \A r \in Requests :
        /\ Returned(r, 1) =>
                /\ optimized_html[r].j = "str"
                /\ Trimmed(replies[r][1].ret.s, optimized_html[r].s)
        /\ Returned(r, 2) =>
                /\ Len(calls[r]) = 5
                /\ Trimmed(replies[r][2].ret.s, calls[r][5].action_text)
        /\ GatewayRaised(r, 1) =>
                /\ optimized_html[r] = Unset
                /\ Len(calls[r]) = 2
                /\ responses[r][1].body.detail = ErrorPrefix \o replies[r][1].exc
        /\ GatewayRaised(r, 2) =>
                /\ action[r] = Unset
                /\ Len(calls[r]) = 4
                /\ responses[r][1].body.detail = ErrorPrefix \o replies[r][2].exc

\* a reduction reply with whitespace on both sides and a generation reply
\* that is no JSON, each returned trimmed; another request whose reduction
\* call raised
C23_Witness ==
    \E r, q \in Requests :
        /\ Returned(r, 1) /\ Returned(r, 2)
        /\ replies[r][1].ret.s # <<>>
        /\ IsPyWs(replies[r][1].ret.s[1])
        /\ IsPyWs(replies[r][1].ret.s[Len(replies[r][1].ret.s)])
        /\ optimized_html[r].s # <<>> /\ optimized_html[r].s # replies[r][1].ret.s
        /\ calls[r][5].action_text = Txt("click #login-btn")
        /\ GatewayRaised(q, 1)

\* what a prompt shows between the line of one heading and the blank line
\* before the next heading
Between(text, heading, next) ==
    SubSeq(text, IndexOf(text, Lit(heading)) + 2, IndexOf(text, Lit(next)) - 3)

\* C24: the reduction prompt shows the request's URL under "Input URL:" and
\* the raw HTML under "Raw HTML:"; when the task context is not empty the
\* raw HTML is preceded, right there, by the line "Task Context:", the
\* context and a blank line; when it is empty the raw HTML stands alone and
\* the prompt has no "Task Context:".
C24_ReductionPrompt ==
    \A r \in Requests :
        Len(calls[r]) >= 2 =>
            LET sent == calls[r][2].prompt
                html == body[r].snapshot_html.s
                task_context == body[r].prompt.s
                shown == Between(sent, "Raw HTML:", "Optimization Goals")
            IN  /\ Between(sent, "Input URL:", "Raw HTML:") = body[r].start_url.s
                /\ endswith(shown, html)
                /\ task_context # <<>> =>
                        shown = <<Lit("Task Context:"), NL>> \o task_context
                                    \o <<NL, NL>> \o html
                /\ task_context = <<>> =>
                        /\ shown = html
                        /\ ~Contains(sent, <<Lit("Task Context:")>>)

\* one reduction prompt sent with a task context and one sent without
C24_Witness ==
    \E r, q \in Requests :
        /\ Len(calls[r]) >= 2 /\ Len(calls[q]) >= 2
        /\ body[r].prompt.s # <<>>
        /\ Contains(calls[r][2].prompt, <<Lit("Task Context:"), NL>> \o body[r].prompt.s)
        /\ body[q].prompt.s = <<>>
        /\ Between(calls[q][2].prompt, "Raw HTML:", "Optimization Goals")
                = body[q].snapshot_html.s

\* C25: the prompt generate_action sends shows, each under its own heading,
\* the request's task prompt, its URL, its step index, its history as
\* formatted (or "No previous actions" for an empty one) and the reduced
\* HTML the reducer returned; no heading shows another field's value.
C25_FiveValues ==
    \A r \in Requests :
        Len(calls[r]) >= 4 =>
            LET sent == calls[r][4].prompt
                history == body[r].history.a
            IN  /\ Between(sent, "Task:", "Current URL:") = body[r].prompt.s
                /\ Between(sent, "Current URL:", "Step:") = body[r].start_url.s
                /\ Between(sent, "Step:", "Previous Actions:")
                        = <<NumLit(body[r].step_index.n)>>
                /\ Between(sent, "Previous Actions:", "Current Page HTML (optimized):")
                        = IF history = <<>> THEN Sentinel ELSE format_history(history)
                /\ Between(sent, "Current Page HTML (optimized):", "Available Actions")
                        = Output(r, 1)

\* a prompt sent at step 1 with one history entry and a reduced HTML that
\* is not the snapshot, and one sent at step 0 with no history
C25_Witness ==
    \E r, q \in Requests :
        /\ Len(calls[r]) >= 4 /\ Len(calls[q]) >= 4
        /\ body[r].step_index.n = 1 /\ Len(body[r].history.a) = 1
        /\ Output(r, 1) # <<>> /\ Output(r, 1) # body[r].snapshot_html.s
        /\ Contains(calls[r][4].prompt, Output(r, 1))
        /\ Contains(calls[r][4].prompt, <<Lit("Step"), SP, NumLit(1), Lit(":"), SP>>)
        /\ body[q].history.a = <<>>
        /\ Contains(calls[q][4].prompt, Sentinel)

\* json.loads read the text: a JSON document, or one of the float constants
\* it accepts beyond JSON
Loaded(s) ==
    LET core == JsonSkipRight(JsonSkipLeft(s))
    IN  Len(core) = 1 /\ core[1].tok \in {"json", "num", "const"}

\* the call fell back: a non-empty reply came back as text, not as a shape
FellBack == ReturnedText /\ parse_arg # <<>> /\ ~IsRendered(parse_ret.ret)

Warned == parse_ret.log # <<>>

\* C26: whenever parse_action returns the trimmed raw text for a non-empty
\* reply that is not the JSON action schema, a reply that is no JSON at all
\* included, it has logged a warning during the call.
C26_EveryFallbackWarned ==
    (Called /\ FellBack) => Warned

\* what holds: the call logs one warning exactly when json.loads read the
\* reply and no action could be built from what it read; a reply json.loads
\* rejects is returned trimmed without any log record, and so is a rendered
\* shape
C26_WarnedAfterJson ==
    Called =>
        /\ Warned <=> (FellBack /\ Loaded(parse_arg))
        /\ Warned => parse_ret.log = <<Warning>>
        /\ FellBack => parse_ret.ret = strip(parse_arg)

\* a JSON object without discriminant: returned as text, with a warning
C26_Witness ==
    /\ Called /\ FellBack /\ Warned
    /\ IsJsonObject(parse_arg)
    /\ Keys(parse_arg) \cap {"type", "action"} = {}

\* the history of the body posted by request r is not as long as its step_index
Mismatch(r) == Len(body[r].history.a) # body[r].step_index.n

\* C27: a schema-valid request is handled without regard to the relation
\* between the length of its history and its step_index: it is never
\* rejected, the reducer and the generator get its history and step_index
\* as posted, and when both provider calls succeed it is answered 200 with
\* the posted step_index, the posted task_id and the parsed action, just as
\* a request whose history has step_index entries.
C27_HistoryNotValidated ==
    \A r \in Requests :
        pc[r] # "idle" =>
            /\ request[r] # NoRequest
            /\ request[r].step_index = body[r].step_index.n
            /\ request[r].history = body[r].history.a
            /\ \A i \in 1..Len(responses[r]) : responses[r][i].status # 422
            /\ Len(calls[r]) >= 3 =>
                    /\ calls[r][3].step_index = body[r].step_index.n
                    /\ calls[r][3].history = body[r].history.a
            /\ (Done(r) /\ Returned(r, 1) /\ Returned(r, 2)) =>
                    responses[r] =
                        <<ActResponse(parse_action(Output(r, 2)), body[r].task_id.s,
                                      body[r].step_index.n)>>

\* a request at step 0 with one history entry and a request at step 2 with
\* an empty history, both answered 200 with their own step_index
C27_Witness ==
    \E r, q \in Requests :
        /\ Done(r) /\ Done(q)
        /\ Len(body[r].history.a) > body[r].step_index.n
        /\ body[q].history.a = <<>> /\ body[q].step_index.n = 2
        /\ responses[r][1].status = 200 /\ responses[r][1].body.step_index = 0
        /\ responses[q][1].status = 200 /\ responses[q][1].body.step_index = 2

\* the kinds of JSON value that are not objects
NonObjectKinds == {"num", "str", "arr", "bool", "null"}

\* C28: for a text that is valid JSON but no object (a number, a string, an
\* array, a boolean or null), parse_action returns the text trimmed and
\* does not raise.
C28_NonObjectTrimmed ==
    (Called /\ ValidJson(parse_arg) /\ JsonValue(parse_arg).j \in NonObjectKinds) =>
        /\ ReturnedText
        /\ parse_ret.ret = strip(parse_arg)
        /\ ~IsRendered(parse_ret.ret)

\* the JSON string "click #login-btn" with a space before it came back
\* without the space, quotes included
C28_Witness ==
    /\ Called /\ ReturnedText
    /\ Len(parse_arg) = 2 /\ parse_arg[1] = SP
    /\ ValidJson(parse_arg) /\ JsonValue(parse_arg) = JStr(Txt("click #login-btn"))
    /\ parse_ret.ret = <<parse_arg[2]>>

\* the object carries a selector object whose type is none of the three
\* selector types, or which has no value
SelectorTypeOrValueWrong(v) ==
    /\ "selector" \in DOMAIN v.o /\ v.o.selector.j = "obj"
    /\ LET sd == v.o.selector.o
       IN  \/ "type" \notin DOMAIN sd
           \/ sd.type.j # "str"
           \/ sd.type.s \notin SelectorType
           \/ "value" \notin DOMAIN sd

\* C29: a JSON object whose selector object has a type that is none of
\* attributeValueSelector, tagContainsSelector, xpathSelector, or has no
\* value, comes back as the trimmed text whatever its action type, Navigate
\* and Wait included; so a selector inside a rendered shape always has one
\* of the three types and the string value the reply gave.
C29_MalformedSelectorFallsBack ==
    (Called /\ IsJsonObject(parse_arg)) =>
        LET v == JsonValue(parse_arg)
        IN  /\ SelectorTypeOrValueWrong(v) =>
                /\ parse_ret.ret = strip(parse_arg)
                /\ ~IsRendered(parse_ret.ret)
            /\ IsRendered(parse_ret.ret) =>
                LET sel == parse_ret.ret[1].repr.selector
                IN  sel # None =>
                        /\ sel.type \in SelectorType
                        /\ v.o.selector.o.value.j = "str"
                        /\ sel.value = v.o.selector.o.value.s

\* an object tagged Navigate or Wait, with a url and with a selector whose
\* type is unknown or whose value is missing, came back as text
C29_Witness ==
    /\ Called /\ IsJsonObject(parse_arg)
    /\ LET v == JsonValue(parse_arg)
       IN  /\ HasStringDiscriminant(v)
           /\ TagOfArg \in {NavigateTag, WaitTag}
           /\ SelectorTypeOrValueWrong(v)
           /\ "url" \in DOMAIN v.o /\ v.o.url.j = "str"
    /\ parse_ret.ret = strip(parse_arg)

\* json.loads reads the text and an action shape is built from what it read
BuildsShape(s) == s # <<>> /\ json_loads(s).ok /\ BuildAction(json_loads(s).val).ok

\* C30: parse_action is idempotent: calling it on what it returned returns
\* the same string, for every string; and the rendering of a shape, fed
\* back in, is not parsed as a JSON action but returned unchanged.
C30_Idempotent ==
    [][Called => parse_ret'.ret = parse_ret.ret]_vars

\* what holds: calling parse_action on what it returned returns the same
\* string unless the first call fell back on a text json.loads rejected
\* and trimming left a text it reads as an action (whitespace that
\* str.strip removes and json.loads does not skip, around the document):
\* then the second call renders the shape.  The rendering of a shape is text
\* json.loads rejects, and comes back unchanged.
C30_IdempotentOnceLoaded ==
    [][(Called /\ ReturnedText) =>
            /\ \/ parse_ret'.ret = parse_ret.ret
               \/ /\ ~Loaded(parse_arg)
                  /\ parse_ret.ret = strip(parse_arg)
                  /\ BuildsShape(strip(parse_arg))
                  /\ IsRendered(parse_ret'.ret)
            /\ BuildsShape(parse_arg) =>
                    /\ ~Loaded(parse_ret.ret)
                    /\ parse_ret'.ret = parse_ret.ret]_vars

\* a rendered Click shape was fed back in and came back unchanged
C30_Witness ==
    /\ Called /\ ReturnedText
    /\ IsRendered(parse_arg)
    /\ parse_arg[1].repr.type = ClickTag
    /\ parse_ret.ret = parse_arg
====
